---- MODULE Spec2Model ----
(***************************************************************************)
(* Model of the coach service of the Discord bot: services/openai_coach.py *)
(* (session state, preflight, ingestion, page index, page locator,         *)
(* citation synthesis and formatting, reset) as driven by main.py.         *)
(*                                                                         *)
(* Text is a sequence of characters.  A character is a one-letter string;  *)
(* the characters that are awkward to write are named: "NL" (newline),     *)
(* "TAB", "NBSP" (U+00A0), "DQ" (the ASCII double quote), "LDQ" / "RDQ"    *)
(* (the curly double quotes U+201C / U+201D).                              *)
(***************************************************************************)
EXTENDS Integers, Sequences, FiniteSets, TLC

\* ------------------------------------------------------------------------
\* Characters and Python string primitives
\* ------------------------------------------------------------------------
MinOf(a, b) == IF a <= b THEN a ELSE b

MaxOf(a, b) == IF a >= b THEN a ELSE b

\* What str.isspace() and the regex class \s accept, within the alphabet.
WhiteSpace == {" ", "NL", "TAB", "NBSP"}

\* The regex class \d, within the alphabet.
Digits == {"0", "1", "2", "3", "4", "5", "6", "7", "8", "9"}

LowerLetters ==
    {"a", "b", "c", "d", "e", "f", "g", "h", "i", "j", "k", "l", "m",
     "n", "o", "p", "q", "r", "s", "t", "u", "v", "w", "x", "y", "z"}

UpperToLower ==
    [c \in {"A", "B", "C", "D", "E", "F", "G", "H", "I", "J", "K", "L", "M",
            "N", "O", "P", "Q", "R", "S", "T", "U", "V", "W", "X", "Y", "Z"} |->
        CASE c = "A" -> "a" [] c = "B" -> "b" [] c = "C" -> "c" [] c = "D" -> "d"
          [] c = "E" -> "e" [] c = "F" -> "f" [] c = "G" -> "g" [] c = "H" -> "h"
          [] c = "I" -> "i" [] c = "J" -> "j" [] c = "K" -> "k" [] c = "L" -> "l"
          [] c = "M" -> "m" [] c = "N" -> "n" [] c = "O" -> "o" [] c = "P" -> "p"
          [] c = "Q" -> "q" [] c = "R" -> "r" [] c = "S" -> "s" [] c = "T" -> "t"
          [] c = "U" -> "u" [] c = "V" -> "v" [] c = "W" -> "w" [] c = "X" -> "x"
          [] c = "Y" -> "y" [] c = "Z" -> "z"]

\* The regex class \w, within the alphabet.
WordChars == LowerLetters \cup DOMAIN UpperToLower \cup Digits \cup {"_"}

\* One character of str.lower().
LowerChar(c) == IF c \in DOMAIN UpperToLower THEN UpperToLower[c] ELSE c

\* str.lower()
str_lower(s) == [i \in 1..Len(s) |-> LowerChar(s[i])]

\* Index of the first non-whitespace character at or after i (Len(s)+1 if none).
RECURSIVE SkipSpace(_, _)
SkipSpace(s, i) ==
    IF i > Len(s) THEN i
    ELSE IF s[i] \in WhiteSpace THEN SkipSpace(s, i + 1) ELSE i

\* Index of the last non-whitespace character at or before i (0 if none).
RECURSIVE SkipSpaceBack(_, _)
SkipSpaceBack(s, i) ==
    IF i < 1 THEN 0
    ELSE IF s[i] \in WhiteSpace THEN SkipSpaceBack(s, i - 1) ELSE i

\* s from index a to index b, empty when a is beyond b.
Between(s, a, b) == IF a > b THEN <<>> ELSE SubSeq(s, a, b)

\* str.strip()
str_strip(s) == Between(s, SkipSpace(s, 1), SkipSpaceBack(s, Len(s)))

\* Python slice s[lo:hi] for 0 <= lo, 0 <= hi (both clipped to the length).
Slice(s, lo, hi) == SubSeq(s, MinOf(lo, Len(s)) + 1, MinOf(hi, Len(s)))

\* Python slice s[-k:] for k > 0.
LastChars(s, k) == SubSeq(s, MaxOf(1, Len(s) - k + 1), Len(s))

\* The Python test `p in t` for strings.
Contains(p, t) ==
    \E i \in 0..(Len(t) - Len(p)) : SubSeq(t, i + 1, i + Len(p)) = p

\* _ws_rx.sub(" ", s): every maximal run of whitespace becomes one space (a
\* whitespace character that follows another one is dropped, the first of a
\* run becomes a space).
KeptChars(marked) == [i \in 1..Len(marked) |-> marked[i].c]

collapse_ws(s) ==
    KeptChars(SelectSeq([i \in 1..Len(s) |->
                           [c |-> IF s[i] \in WhiteSpace THEN " " ELSE s[i],
                            drop |-> s[i] \in WhiteSpace /\ i > 1
                                     /\ s[i - 1] \in WhiteSpace]],
                        LAMBDA m : ~m.drop))

\* _norm: NBSP -> space, whitespace runs -> one space, strip, lower.
norm(s) ==
    LET replaced == [i \in 1..Len(s) |-> IF s[i] = "NBSP" THEN " " ELSE s[i]]
    IN  str_lower(str_strip(collapse_ws(replaced)))

\* The regex  \(?\b(?:page|p\.)\s*\d+\)?$  (IGNORECASE) matched against s
\* from index i on, piece by piece.  Every choice in it is forced: "(" is
\* taken when present, the whitespace and digit runs are taken whole, and $
\* accepts the end of the string or a single final newline.
\*
\* \(? : the index after the optional "(".
TagOpen(s, i) == IF i <= Len(s) /\ s[i] = "(" THEN i + 1 ELSE i

\* \b before a word: a word character at j that no word character precedes.
TagBoundary(s, j) ==
    j <= Len(s) /\ s[j] \in WordChars /\ (j = 1 \/ s[j - 1] \notin WordChars)

\* (?:page|p\.) : the index after the word at j, 0 when neither is there.
TagWord(s, j) ==
    IF j + 3 <= Len(s) /\ str_lower(SubSeq(s, j, j + 3)) = <<"p", "a", "g", "e">>
    THEN j + 4
    ELSE IF j + 1 <= Len(s) /\ LowerChar(s[j]) = "p" /\ s[j + 1] = "."
         THEN j + 2
         ELSE 0

\* \d+ taken whole: the index after the run of digits that starts at m.
TagDigitsEnd(s, m) ==
    CHOOSE x \in m..(Len(s) + 1) :
        /\ \A y \in m..(x - 1) : s[y] \in Digits
        /\ (x = Len(s) + 1 \/ s[x] \notin Digits)

\* \)? : the index after the optional ")".
TagClose(s, e) == IF e <= Len(s) /\ s[e] = ")" THEN e + 1 ELSE e

\* $ at index r.
TagAtEnd(s, r) == r = Len(s) + 1 \/ (r = Len(s) /\ s[Len(s)] = "NL")

\* \d+\)?$ with the digits running from m up to e.
TagTail(s, m, e) == e > m /\ TagAtEnd(s, TagClose(s, e))

\* \s*\d+\)?$ from index k on.
TagNumber(s, m) == TagTail(s, m, TagDigitsEnd(s, m))

\* \b(?:page|p\.)\s*\d+\)?$ with the word at j ending before k.
TagFrom(s, j, k) == TagBoundary(s, j) /\ k > 0 /\ TagNumber(s, SkipSpace(s, k))

\* Whether the regex matches s from index i on.
TagMatchAt(s, i) == TagFrom(s, TagOpen(s, i), TagWord(s, TagOpen(s, i)))

\* The snippet without the match that starts at the lowest index of `hits`
\* (a final newline is outside the match), stripped; no match: stripped.
StripAt(snippet, hits) ==
    IF hits = {} THEN str_strip(snippet)
    ELSE str_strip(SubSeq(snippet, 1, (CHOOSE x \in hits : \A y \in hits : x <= y) - 1)
                   \o (IF snippet[Len(snippet)] = "NL" THEN <<"NL">> ELSE <<>>))

\* _strip_page_tag: re.sub removes the leftmost match, then strip().
strip_page_tag(snippet) ==
    StripAt(snippet, {i \in 1..Len(snippet) : TagMatchAt(snippet, i)})

\* ------------------------------------------------------------------------
\* Probe generator and page locator (pure parts)
\* ------------------------------------------------------------------------
\* Optional[int] None of locate_page: pages are numbered from 1.
NoPage == 0

QuoteMinLen == 12

ShortExcerptLen == 30

ProbeWindow == 90

ProbeHalf == 45

ProbeMinLen == 20

FallbackLen == 120

\* The acceptance threshold 0.82 as the fraction ThresholdNum / ThresholdDen.
ThresholdNum == 82

ThresholdDen == 100

\* The loop of _probe_snippets over the three slices, stripped: keep a slice
\* when it is long enough and not seen before.
RECURSIVE KeepProbes(_, _, _)
KeepProbes(stripped, i, out) ==
    IF i > Len(stripped) THEN out
    ELSE IF Len(stripped[i]) >= ProbeMinLen /\ \A k \in 1..Len(out) : out[k] # stripped[i]
         THEN KeepProbes(stripped, i + 1, Append(out, stripped[i]))
         ELSE KeepProbes(stripped, i + 1, out)

\* s.strip() of every slice.
StripEach(slices) == [i \in 1..Len(slices) |-> str_strip(slices[i])]

\* The three slices of the stripped quote q of length L: head, middle, tail.
ProbeSlices(q, L) ==
    << Slice(q, 0, ProbeWindow),
       Slice(q, MaxOf(0, (L \div 2) - ProbeHalf), MinOf(L, (L \div 2) + ProbeHalf)),
       LastChars(q, ProbeWindow) >>

\* return out or [q[:120]]
ProbesOrFallback(q, out) == IF out # <<>> THEN out ELSE << Slice(q, 0, FallbackLen) >>

\* _probe_snippets after q = q.strip()
ProbesOfStripped(q) ==
    IF Len(q) < ShortExcerptLen THEN <<q>>
    ELSE ProbesOrFallback(q, KeepProbes(StripEach(ProbeSlices(q, Len(q))), 1, <<>>))

\* _probe_snippets
probe_snippets(q0) == ProbesOfStripped(str_strip(q0))

\* SequenceMatcher(a=a, b=b).quick_ratio() as the exact fraction <<num, den>>:
\* 2.0 * matches / (len(a) + len(b)), and 1.0 when both are empty.  Its loop
\* over the elements of a counts an element while occurrences of it in b are
\* still available (avail starts at fullbcount and drops by one per element),
\* so of each character c it counts the first fullbcount[c] occurrences in a:
\* matches is the number of pairs (c, k) with k up to the smaller count.
\* The floats the code compares are quotients of integers below 2^53 with
\* denominators of a few hundred, so comparing the fractions compares them.
quick_ratio(a, b) ==
    LET chars == {a[i] : i \in 1..Len(a)}
        fullbcount == [c \in chars |-> Cardinality({i \in 1..Len(b) : b[i] = c})]
        acount == [c \in chars |-> Cardinality({i \in 1..Len(a) : a[i] = c})]
        matches == Cardinality(UNION {{c} \X (1..MinOf(acount[c], fullbcount[c])) :
                                        c \in chars})
        length == Len(a) + Len(b)
    IN  IF length = 0 THEN <<1, 1>> ELSE << 2 * matches, length >>

\* r1 > r2 on fractions with positive denominators.
RatioGt(r1, r2) == r1[1] * r2[2] > r2[1] * r1[2]

\* A variant of the acceptance test that excludes the threshold itself.
RatioGe_Strict(r1, r2) == r1[1] * r2[2] > r2[1] * r1[2]

\* r1 >= r2 on fractions with positive denominators.
RatioGe(r1, r2) == r1[1] * r2[2] >= r2[1] * r1[2]

\* A variant of pass 1 that goes probe by probe: the lowest page holding the
\* first probe that occurs anywhere.
RECURSIVE ExactPass_ProbeMajor(_, _, _)
ExactPass_ProbeMajor(pages, probes, k) ==
    IF k > Len(probes) THEN NoPage
    ELSE LET hits == {i \in 1..Len(pages) :
                        probes[k] # <<>> /\ Contains(probes[k], pages[i])}
         IN  IF hits # {} THEN CHOOSE i \in hits : \A j \in hits : i <= j
             ELSE ExactPass_ProbeMajor(pages, probes, k + 1)

\* Pass 1 of locate_page: pages in order, any probe an exact substring.
RECURSIVE ExactPass(_, _, _)
ExactPass(pages, probes, i) ==
    IF i > Len(pages) THEN NoPage
    ELSE IF \E k \in 1..Len(probes) :
                probes[k] # <<>> /\ Contains(probes[k], pages[i])
         THEN i
         ELSE ExactPass(pages, probes, i + 1)

\* if ratio > best_ratio: best_ratio, best_page = ratio, i
BetterOf(best, i, ratio) ==
    IF RatioGt(ratio, best.ratio) THEN [page |-> i, ratio |-> ratio] ELSE best

\* Pass 2 of locate_page: the loop over (page, probe) pairs, page-major,
\* replacing the best only on a strictly greater ratio.
RECURSIVE FuzzyPass(_, _, _, _, _)
FuzzyPass(pages, probes, i, k, best) ==
    IF i > Len(pages) THEN best
    ELSE IF k > Len(probes) THEN FuzzyPass(pages, probes, i + 1, 1, best)
    ELSE FuzzyPass(pages, probes, i, k + 1,
                   BetterOf(best, i, quick_ratio(probes[k], pages[i])))

\* [_norm(s) for s in raw]
NormEach(raw) == [k \in 1..Len(raw) |-> norm(raw[k])]

\* The probes locate_page searches for: [_norm(s) for s in _probe_snippets(q_raw)].
locate_probes(quoted_snippet) == NormEach(probe_snippets(strip_page_tag(quoted_snippet)))

\* The end of locate_page: the best page when its ratio reaches the threshold.
AcceptBest(best) ==
    IF RatioGe(best.ratio, <<ThresholdNum, ThresholdDen>>) THEN best.page ELSE NoPage

\* The page of pass 1 when it found one, that of pass 2 otherwise.
ExactOrBest(exact, best) == IF exact # NoPage THEN exact ELSE AcceptBest(best)

\* The two passes of locate_page over the pages with the probes.
SearchPages(pages, probes) ==
    ExactOrBest(ExactPass(pages, probes, 1),
                FuzzyPass(pages, probes, 1, 1, [page |-> NoPage, ratio |-> <<0, 1>>]))

\* A variant of the locator without the minimum length of the quote.
locate_in_NoMinLen(pages, quoted_snippet) ==
    SearchPages(pages, locate_probes(quoted_snippet))

\* locate_page once the page list is known to be non-empty.
locate_in(pages, quoted_snippet) ==
    IF Len(norm(strip_page_tag(quoted_snippet))) < QuoteMinLen THEN NoPage
    ELSE SearchPages(pages, locate_probes(quoted_snippet))

\* ------------------------------------------------------------------------
\* Quote extraction from the answer text
\* ------------------------------------------------------------------------
ExtractMinLen == 12

\* The span the alternative of _QUOTE_RX opened by `open` and closed by `close`
\* matches at index i: <<TRUE, text between the quotes>>, or <<FALSE, <<>>>>.
\* The class [^close]+ stops at the first `close`, which must leave it at
\* least one character.
QuoteUpTo(s, i, open, e) ==
    IF s[i] = open /\ e >= i + 2
    THEN <<TRUE, SubSeq(s, i + 1, e - 1)>>
    ELSE <<FALSE, <<>> >>

\* The least element of a set of indexes, 0 for the empty set.
FirstOf(ends) == IF ends = {} THEN 0 ELSE CHOOSE x \in ends : \A y \in ends : x <= y

QuoteAt(s, i, open, close) ==
    QuoteUpTo(s, i, open, FirstOf({e \in (i + 1)..Len(s) : s[e] = close}))

\* The match of the first alternative when it matches, else that of the second.
FirstMatch(curly, plain) == IF curly[1] THEN curly ELSE plain

\* _QUOTE_RX.search(s): the leftmost index where either alternative matches.
RECURSIVE QuoteSearch(_, _)
QuoteSearch(s, i) ==
    IF i > Len(s) THEN <<FALSE, <<>> >>
    ELSE IF QuoteAt(s, i, "LDQ", "RDQ")[1] \/ QuoteAt(s, i, "DQ", "DQ")[1]
         THEN FirstMatch(QuoteAt(s, i, "LDQ", "RDQ"), QuoteAt(s, i, "DQ", "DQ"))
         ELSE QuoteSearch(s, i + 1)

\* The stripped group of the match m when it is long enough, else None.
LongEnough(q) == IF Len(q) >= ExtractMinLen THEN q ELSE <<>>

QuoteOfMatch(m) == IF m[1] THEN LongEnough(str_strip(m[2])) ELSE <<>>

\* _extract_quote_from_answer; None is the empty text (the caller tests `not quote`).
extract_quote_from_answer(answer) == QuoteOfMatch(QuoteSearch(answer, 1))

\* ------------------------------------------------------------------------
\* Configuration and the fixed sentences
\* ------------------------------------------------------------------------
ALLOWED_TYPES == {"application/pdf", "text/plain"}

MAX_FILE_MB == 15

MIN_FILE_BYTES == 1024

MIN_TEXT_CHARS_NORM == 40

MaxQuoteLen == 140

TruncatedLen == 137

\* None of Optional[str] for a MIME type (and the empty content_type, equally falsy).
NoMime == ""

\* None of a citation's file_id; the ingestion service numbers files from 1.
NoFid == 0

MSG_NOT_CONFIGURED == "Assistant is not configured yet. Please set NPF_ASSISTANT_ID."

MSG_UNSUPPORTED == "Unsupported file type. Please upload PDF or TXT."

MSG_EMPTY == "This file is empty, no analysis possible."

MSG_TOO_LARGE == "File too large. Please keep under 15 MB."

\* (The typographic apostrophes of the source sentences are written as '.)
MSG_DOWNLOAD == "I couldn't download the file from Discord. Please re-upload and try again."

MSG_FETCH_UNEXPECTED == "Unexpected error fetching the file. Please try again."

MSG_CORRUPTED == "This file is corrupted and cannot be read."

MSG_NO_TEXT == "I couldn't find searchable text in this document. If it's a scanned/image-only PDF, text extraction isn't enabled in this phase."

MSG_PROCESSING == "There was a problem processing this file. Please try another file."

MSG_NO_PRIOR_UPLOAD == "Please upload a PDF or TXT to start a new session."

\* The sentences run_and_wait returns as the answer; they pass through quote
\* extraction and formatting, so they are texts.
TXT_UPSTREAM_FAILED ==
    <<"S","o","r","r","y",","," ","t","h","e"," ","a","n","a","l","y","s","i","s"," ","t","o","o","k"," ","t","o","o"," ","l","o","n","g"," ","o","r"," ","f","a","i","l","e","d","."," ","P","l","e","a","s","e"," ","t","r","y"," ","a","g","a","i","n",".">>

TXT_NO_RESPONSE ==
    <<"N","o"," ","r","e","s","p","o","n","s","e"," ","p","r","o","d","u","c","e","d",".">>

TXT_NO_TEXT_RESPONSE ==
    <<"N","o"," ","t","e","x","t"," ","r","e","s","p","o","n","s","e",".">>

TXT_SEE_SOURCE == <<"S","e","e"," ","s","o","u","r","c","e"," ">>

TXT_ELLIPSIS == <<".",".",".">>

TXT_NONE == <<"N","o","n","e">>

\* ------------------------------------------------------------------------
\* Inputs: sessions, attachments, fetched bytes, reasoning-service replies
\* ------------------------------------------------------------------------
\* Highest file id the ingestion service hands out in the model.
MaxFiles == 2

Users == {"u1", "u2"}

\* Invocations of chat_cmd and coach_cmd that can be in flight together.
Requests == {1, 2}

\* The chat and coach commands of a behaviour that reach the limiter.
MaxCommands == 2

\* A text of n copies of the character c.
Rep(c, n) == [i \in 1..n |-> c]

TXT_WHY == <<"w","h","y","?">>

\* prompt: str, the text of a chat command.
Prompts == { TXT_WHY }

\* question: Optional[str]; an Optional value is a sequence of length 0 or 1.
Questions == { <<>>, <<TXT_WHY>> }

\* Attachment descriptors as coach_cmd builds them (url left out: the fetch
\* collaborator decides what it yields).  coach_cmd always fills in
\* content_type: "application/octet-stream" when Discord reports none.
AttFund ==
    [filename |-> <<"f","u","n","d",".","p","d","f">>,
     content_type |-> "application/pdf", size |-> 2000]

AttNotes ==
    [filename |-> <<"N","o","t","e","s",".","T","X","T">>,
     content_type |-> "text/plain", size |-> 2000]

AttReadme ==
    [filename |-> <<"r","e","a","d","m","e">>,
     content_type |-> "application/octet-stream", size |-> 2000]

AttZero == [AttFund EXCEPT !.size = 0]

AttSmall == [AttFund EXCEPT !.size = 1023]

AttBig == [AttFund EXCEPT !.size = (15 * 1024 * 1024) + 1]

Attachments == {AttFund, AttNotes, AttReadme, AttZero, AttSmall, AttBig}

\* Raw page texts of the PDF, as the extraction library yields them.
\*   1, 2  the same sentence, laid out differently (equal once normalized)
\*   3     holds the tail window of QuoteLong, 4 its head window
\*   5..7  share the characters of QuoteFuzzy in another order
PdfPages ==
    << <<"I","n","t","r","o",":"," "," ","T","h","e"," ","F","u","n","d","NL","R","e","b","a","l","a","n","c","e","s"," ","Q","u","a","r","t","e","r","l","y","."," ">>,
       <<"I","n","t","r","o",":"," ","T","h","e"," ","F","u","n","d"," ","R","e","b","a","l","a","n","c","e","s","NL","Q","u","a","r","t","e","r","l","y",".">>,
       <<"x">> \o Rep("b", 80) \o Rep("c", 10),
       Rep("a", 10) \o Rep("b", 80) \o <<"y">>,
       Rep("n", 21) \o Rep("m", 20) \o Rep("o", 19),
       Rep("n", 21) \o Rep("m", 20) \o Rep("o", 18),
       Rep("n", 21) \o Rep("m", 20) \o Rep("o", 18) >>

\* Fetched bytes, by what the code can observe of them: their length, what
\* the PDF library makes of them (opens or raises; the raw page texts) and
\* what decode("utf-8", errors="ignore") makes of them.
DataPdf ==
    [nbytes |-> 2000, opens |-> TRUE, pages |-> PdfPages,
     decoded |-> <<"%","P","D","F","-","1",".","4">>]

DataHugePdf == [DataPdf EXCEPT !.nbytes = 20000000]

DataBlankPdf ==
    [DataPdf EXCEPT !.pages = << <<>>, <<" ", "NL">>, <<>>, <<>>, <<>> >>]

DataNoPagesPdf == [DataPdf EXCEPT !.pages = <<>>]

DataText ==
    [nbytes |-> 2000, opens |-> FALSE, pages |-> <<>>,
     decoded |-> <<"T","h","e"," ","f","u","n","d"," ","r","e","b","a","l","a","n","c","e","s"," ","q","u","a","r","t","e","r","l","y",".">>]

DataGarbage ==
    [nbytes |-> 2000, opens |-> FALSE, pages |-> <<>>, decoded |-> <<" ", "NL">>]

DataTiny == [DataText EXCEPT !.nbytes = 1023]

DataNone == [DataGarbage EXCEPT !.nbytes = 0]

Datas ==
    {DataPdf, DataHugePdf, DataBlankPdf, DataNoPagesPdf, DataText, DataGarbage,
     DataTiny, DataNone}

\* Quotes the reasoning service attaches to its citations.
QuoteExact ==
    <<"T","h","e"," ","F","u","n","d"," ","R","e","b","a","l","a","n","c","e","s"," "," "," ","Q","u","a","r","t","e","r","l","y",".">>

QuoteLong == Rep("a", 10) \o Rep("b", 80) \o Rep("c", 10)

QuoteFuzzy == Rep("m", 20) \o Rep("n", 21)

QuoteBelow == Rep("m", 20) \o Rep("n", 21) \o <<"z">>

QuoteShort == <<"t","h","e"," ","f","u","n","d">>

QuoteVeryLong == Rep("b", 80) \o Rep("c", 10) \o Rep("d", 60)

Quotes ==
    {QuoteExact, QuoteLong, QuoteFuzzy, QuoteBelow, QuoteShort, QuoteVeryLong, <<>>}

TXT_PLAIN_ANSWER ==
    <<"I","t"," ","r","e","b","a","l","a","n","c","e","s"," ","e","v","e","r","y"," ","q","u","a","r","t","e","r",".">>

TXT_QUOTING_ANSWER ==
    <<"I","t"," ","s","a","y","s"," ","LDQ","T","h","e"," ","F","u","n","d"," ","R","e","b","a","l","a","n","c","e","s"," "," "," ","Q","u","a","r","t","e","r","l","y",".","RDQ"," ","o","n"," ","t","h","a","t"," ","p","a","g","e",".">>

TXT_CITING_ANSWER ==
    <<"S","e","e"," ","t","h","e"," ","c","i","t","e","d"," ","s","o","u","r","c","e",".">>

\* An answer with a short quoted span before the long one.
TXT_TWO_SPANS_ANSWER ==
    <<"DQ","Y","e","s","DQ",":"," ","LDQ","T","h","e"," ","F","u","n","d"," ","R","e","b","a","l","a","n","c","e","s"," "," "," ","Q","u","a","r","t","e","r","l","y",".","RDQ">>

\* One annotation of a text part.
Annotation(type, file_id, quote) ==
    [type |-> type, file_id |-> file_id, quote |-> quote]

\* One content part of the assistant's message.
TextPart(value, annotations) ==
    [type |-> "text", value |-> value, annotations |-> annotations]

\* The latest message of the thread once the run has completed (messages.data
\* is a list of at most one message; a message is its content parts).
Messages ==
    { <<>>,
      << << [type |-> "image_file", value |-> <<>>, annotations |-> <<>>] >> >>,
      << << TextPart(TXT_PLAIN_ANSWER \o <<" ">>, <<>>) >> >>,
      << << TextPart(TXT_QUOTING_ANSWER, <<>>) >> >>,
      << << TextPart(TXT_TWO_SPANS_ANSWER, <<>>) >> >> }
    \cup { << << TextPart(TXT_CITING_ANSWER,
                          << Annotation("file_citation", f, q) >>) >> >> :
             f \in 1..MaxFiles, q \in Quotes }
    \cup { << << TextPart(TXT_CITING_ANSWER,
                          << Annotation("file_citation", NoFid, QuoteExact) >>) >> >> }
    \cup { << << TextPart(TXT_CITING_ANSWER,
                          << Annotation("file_citation", f, QuoteExact),
                             Annotation("file_path", f, QuoteLong),
                             Annotation("file_citation", f, QuoteExact \o <<" ">>),
                             Annotation("file_citation", f, QuoteShort),
                             Annotation("file_citation", f, QuoteExact) >>) >> >> :
             f \in 1..MaxFiles }

\* Status of the run when the polling loop is left ("in_progress": left on the timeout).
RunStatuses ==
    {"completed", "failed", "requires_action", "cancelled", "expired", "in_progress"}

\* ------------------------------------------------------------------------
\* State
\* ------------------------------------------------------------------------
VARIABLES
    assistant_id,          \* _assistant_id: "" when NPF_ASSISTANT_ID is not set
    THREAD_BY_USER,        \* dict user_id -> thread id
    HAS_FILE_IN_SESSION,   \* dict user_id -> bool
    FILE_MAP,              \* dict file_id -> original filename
    PAGE_INDEX,            \* dict user_id -> dict file_id -> normalized pages
    FILES_BY_USER,         \* dict user_id -> list of file_id
    next_file,             \* the id the ingestion service assigns next
    uploaded,              \* the files the ingestion service holds: file_id -> name, MIME
    req,                   \* per invocation of coach_cmd: where it is suspended, its locals
    obs,                   \* what the last step did towards the outside: the value
                           \* coach_answer returned (handed to followup.send in the same
                           \* step), the exception it raised, the ingestion call it made,
                           \* the rate-limit reply, the reset
    LIMIT,                 \* ratelimit._LIMIT: RATE_LIMIT_PER_MINUTE of the environment
                           \* at import (20 when it is not set)
    BUCKETS,               \* ratelimit._BUCKETS: dict (user_id, mode) -> deque of timestamps
    granted,               \* history kept for the limiter on its own: per bucket, the
                           \* times of the latest calls of allow that returned True
                           \* since the bucket was last popped
    clock,                 \* the latest value time.time() returned
    commands,              \* history: the chat and coach commands that reached the limiter
    poll                   \* run_and_wait: where it is, its t0, run.status, its return value

session ==
    <<THREAD_BY_USER, HAS_FILE_IN_SESSION, FILE_MAP, PAGE_INDEX, FILES_BY_USER, next_file,
      uploaded>>

vars == <<assistant_id, LIMIT, THREAD_BY_USER, HAS_FILE_IN_SESSION, FILE_MAP, PAGE_INDEX,
          FILES_BY_USER, next_file, uploaded, req, obs, BUCKETS, granted, clock,
          commands, poll>>

\* A dict is a function on the set of its keys.
EmptyDict == <<>>

DictSet(d, k, v) == [x \in (DOMAIN d) \cup {k} |-> IF x = k THEN v ELSE d[x]]

DictPop(d, k) == [x \in (DOMAIN d) \ {k} |-> d[x]]

DictGet(d, k, default) == IF k \in DOMAIN d THEN d[k] ELSE default

\* The id of a created thread: opaque, stored and passed on, never compared.
ThreadId == "thread"

\* The locals of an invocation that its later steps read.  While coach_cmd
\* awaits response.defer the question is among them; coach_answer only passes
\* it on to messages.create, whose outcome does not depend on it here.
IdleReq == [pc |-> "idle", user_id |-> "", attachment |-> <<>>]

\* An observation: the operation (op) and, for coach_answer, the step of it
\* that ended (at); the caller's arguments; the session's document list and
\* flag when the step began; what was fetched; whether files.create was
\* called; the outcome and the text returned; the status the run ended its
\* polling with; the answer of the run, the
\* citations formatted, whether they were synthesized, the lines rendered;
\* for a call of locate_page its arguments, the probes it searched for (none
\* when it returned before making them) and the page returned.
NoObs ==
    [op |-> "none", at |-> "", user |-> "", outcome |-> "", attachment |-> <<>>,
     question |-> <<>>, files |-> <<>>, flag |-> FALSE,
     fetched |-> <<>>, ingested |-> FALSE, text |-> "", status |-> "",
     answer |-> <<>>,
     cites |-> <<>>, synthesized |-> FALSE, lines |-> <<>>,
     file_id |-> NoFid, quote |-> <<>>, probes |-> <<>>, page |-> NoPage]

\* The observation of a step of coach_answer(user_id, ...) that begins now.
Call(user_id, at) ==
    [NoObs EXCEPT !.op = "answer", !.at = at, !.user = user_id,
                  !.files = DictGet(FILES_BY_USER, user_id, <<>>),
                  !.flag = DictGet(HAS_FILE_IN_SESSION, user_id, FALSE)]

\* ------------------------------------------------------------------------
\* Helpers of coach_answer
\* ------------------------------------------------------------------------
\* str.endswith
EndsWith(s, suffix) ==
    Len(s) >= Len(suffix) /\ LastChars(s, Len(suffix)) = suffix

\* _infer_mime_from_name
infer_mime_from_name(filename) ==
    LET fn == str_lower(filename)
    IN  IF EndsWith(fn, <<".","p","d","f">>) THEN "application/pdf"
        ELSE IF EndsWith(fn, <<".","t","x","t">>) THEN "text/plain"
        ELSE NoMime

\* ct = attachment.get("content_type") or _infer_mime_from_name(filename)
content_type_of(attachment) ==
    IF attachment.content_type # NoMime THEN attachment.content_type
    ELSE infer_mime_from_name(attachment.filename)

\* The "basic guards" on the declared type and size: the sentence returned, or "".
basic_guards(ct, size) ==
    IF ct \notin ALLOWED_TYPES THEN MSG_UNSUPPORTED
    ELSE IF size = 0 THEN MSG_EMPTY
    ELSE IF size < MIN_FILE_BYTES THEN MSG_EMPTY
    ELSE IF size > MAX_FILE_MB * 1024 * 1024 THEN MSG_TOO_LARGE
    ELSE ""

\* sum(norm_text_lens)
RECURSIVE SumNormLens(_, _)
SumNormLens(pages, i) ==
    IF i > Len(pages) THEN 0 ELSE Len(norm(pages[i])) + SumNormLens(pages, i + 1)

\* A variant of the preflight without the floor on the extracted text.
preflight_NoTextFloor(ct, data) ==
    IF data.nbytes = 0 \/ data.nbytes < MIN_FILE_BYTES
    THEN [msg |-> MSG_EMPTY, pages |-> <<>>]
    ELSE IF ct = "application/pdf"
    THEN IF ~data.opens THEN [msg |-> MSG_CORRUPTED, pages |-> <<>>]
         ELSE IF Len(data.pages) = 0 THEN [msg |-> MSG_CORRUPTED, pages |-> <<>>]
         ELSE [msg |-> "",
               pages |-> << [i \in 1..Len(data.pages) |-> norm(data.pages[i])] >>]
    ELSE IF ct = "text/plain" /\ Len(str_strip(data.decoded)) = 0
    THEN [msg |-> MSG_EMPTY, pages |-> <<>>]
    ELSE [msg |-> "", pages |-> <<>>]

\* The size check on the fetched bytes and the strict preflight before the
\* upload: the sentence returned ("" to go on) and pages_norm_pre (None = <<>>).
preflight(ct, data) ==
    IF data.nbytes = 0 \/ data.nbytes < MIN_FILE_BYTES
    THEN [msg |-> MSG_EMPTY, pages |-> <<>>]
    ELSE IF ct = "application/pdf"
    THEN IF ~data.opens THEN [msg |-> MSG_CORRUPTED, pages |-> <<>>]
         ELSE IF Len(data.pages) = 0 THEN [msg |-> MSG_CORRUPTED, pages |-> <<>>]
         ELSE IF SumNormLens(data.pages, 1) < MIN_TEXT_CHARS_NORM
              THEN [msg |-> MSG_NO_TEXT, pages |-> <<>>]
              ELSE [msg |-> "",
                    pages |-> << [i \in 1..Len(data.pages) |-> norm(data.pages[i])] >>]
    ELSE IF ct = "text/plain" /\ Len(str_strip(data.decoded)) = 0
    THEN [msg |-> MSG_EMPTY, pages |-> <<>>]
    ELSE [msg |-> "", pages |-> <<>>]

\* A variant that indexes a document of any other kind as one page.
pages_to_index_OnePage(ct, pages_norm_pre) ==
    IF ct = "application/pdf"
    THEN IF pages_norm_pre = <<>> THEN <<>> ELSE pages_norm_pre[1]
    ELSE << <<"t","e","x","t">> >>

\* The page list coach_answer indexes after the upload.
pages_to_index(ct, pages_norm_pre) ==
    IF ct = "application/pdf"
    THEN IF pages_norm_pre = <<>> THEN <<>> ELSE pages_norm_pre[1]
    ELSE <<>>

\* index_pages: _PAGE_INDEX.setdefault(user_id, {})[file_id] = pages_norm
index_pages(index, user_id, file_id, pages_norm) ==
    DictSet(index, user_id,
            DictSet(DictGet(index, user_id, EmptyDict), file_id, pages_norm))

\* Longest page list of an indexed document.
MaxPages == 3

\* Raw page lists of a PDF: every list of up to MaxPages pages of PdfPages.
PageLists == UNION {[1..n -> {PdfPages[i] : i \in 1..Len(PdfPages)}] : n \in 1..MaxPages}

\* The PDFs the validation accepts among them.
LocDatas ==
    {d \in {[DataPdf EXCEPT !.pages = p] : p \in PageLists} :
        preflight("application/pdf", d).msg = ""}

\* A snippet carrying the page marker the reasoning service sometimes appends.
QuoteTagged ==
    <<"T","h","e"," ","F","u","n","d"," ","R","e","b","a","l","a","n","c","e","s"," ","Q","u","a","r","t","e","r","l","y","."," ","(","P","a","g","e"," ","9",")">>

\* The quotes the locator is asked for: those above, and
\*   "the fund (page 2)", short once its marker is stripped;
\*   "Rebalances Quarterly.", a short excerpt;
\*   "Fund Rebalances" and "Quarterly." 80 spaces apart, short once normalized;
\*   90 times "q" then 90 times "Q", whose three slices differ by case only;
\*   "a" and "b" 88 spaces apart then 90 times "x", whose head slice is
\*   nearly all spaces.
LocQuotes ==
    Quotes \cup
    {QuoteTagged,
     <<"t","h","e"," ","f","u","n","d"," ","(","p","a","g","e"," ","2",")">>,
     <<"R","e","b","a","l","a","n","c","e","s"," ","Q","u","a","r","t","e","r","l","y",".">>,
     <<"F","u","n","d"," ","R","e","b","a","l","a","n","c","e","s">> \o Rep(" ", 80)
        \o <<"Q","u","a","r","t","e","r","l","y",".">>,
     Rep("q", 90) \o Rep("Q", 90),
     <<"a">> \o Rep(" ", 88) \o <<"b">> \o Rep("x", 90)}

\* The page lists the index can hold and the snippets locate_page can be
\* asked for: the quotes of the citations as run_and_wait and the formatter
\* strip them, and the spans the synthesizer extracts from the answers.
KnownPageLists ==
    {pages_to_index("application/pdf", preflight("application/pdf", d).pages) :
        d \in {x \in Datas \cup LocDatas : preflight("application/pdf", x).msg = ""}}

KnownSnippets ==
    LocQuotes \cup {str_strip(q) : q \in LocQuotes}
    \cup {extract_quote_from_answer(a) :
            a \in {TXT_PLAIN_ANSWER, TXT_QUOTING_ANSWER, TXT_TWO_SPANS_ANSWER,
                    TXT_CITING_ANSWER,
                    TXT_UPSTREAM_FAILED, TXT_NO_RESPONSE, TXT_NO_TEXT_RESPONSE}}

\* locate_in tabulated over them.  TLC evaluates a constant once, so that
\* locate_page does not search the same pages for the same snippet again in
\* every state.
LocateTable == [x \in KnownPageLists \X KnownSnippets |-> locate_in(x[1], x[2])]

\* locate_page
LocateIn(pages, quoted_snippet) ==
    IF pages = <<>> THEN NoPage ELSE LocateTable[<<pages, quoted_snippet>>]

locate_page(user_id, file_id, quoted_snippet) ==
    LocateIn(DictGet(DictGet(PAGE_INDEX, user_id, EmptyDict), file_id, <<>>),
             quoted_snippet)

\* ------------------------------------------------------------------------
\* Reading the run's reply (second half of run_and_wait)
\* ------------------------------------------------------------------------
\* The file_citation annotations of one text part, as citations.
RECURSIVE PartCitations(_, _)
PartCitations(anns, i) ==
    IF i > Len(anns) THEN <<>>
    ELSE IF anns[i].type = "file_citation"
         THEN << [file_id |-> anns[i].file_id, quote |-> str_strip(anns[i].quote)] >>
              \o PartCitations(anns, i + 1)
         ELSE PartCitations(anns, i + 1)

\* One pass of the loop over msg.content: the text and the citations of a
\* text part go before those of the parts after it (rest).
ReadPart(part, rest) ==
    IF part.type = "text"
    THEN << << str_strip(part.value) >> \o rest[1],
            PartCitations(part.annotations, 1) \o rest[2] >>
    ELSE rest

\* The loop over msg.content: <<text_parts, citations>>.
RECURSIVE ReadContent(_, _)
ReadContent(content, i) ==
    IF i > Len(content) THEN << <<>>, <<>> >>
    ELSE ReadPart(content[i], ReadContent(content, i + 1))

\* "\n".join(parts)
RECURSIVE JoinLines(_, _)
JoinLines(parts, i) ==
    IF i > Len(parts) THEN <<>>
    ELSE IF i = Len(parts) THEN parts[i]
    ELSE parts[i] \o <<"NL">> \o JoinLines(parts, i + 1)

\* answer = "\n".join(text_parts).strip() or "No text response."
TextOr(joined) == IF joined = <<>> THEN TXT_NO_TEXT_RESPONSE ELSE joined

\* The pair run_and_wait returns for what the loop over msg.content read.
AnswerOf(read) ==
    [answer |-> TextOr(str_strip(JoinLines(read[1], 1))), citations |-> read[2]]

\* A variant of run_and_wait that reads the latest message whatever the status.
run_result_IgnoresStatus(status, messages) ==
    IF messages = <<>>
    THEN [answer |-> TXT_NO_RESPONSE, citations |-> <<>>]
    ELSE AnswerOf(ReadContent(messages[1], 1))

\* What run_and_wait returns once the polling loop is left with `status` and,
\* for a completed run, messages.list yields `messages`.
run_result(status, messages) ==
    IF status # "completed"
    THEN [answer |-> TXT_UPSTREAM_FAILED, citations |-> <<>>]
    ELSE IF messages = <<>>
    THEN [answer |-> TXT_NO_RESPONSE, citations |-> <<>>]
    ELSE AnswerOf(ReadContent(messages[1], 1))

\* ------------------------------------------------------------------------
\* Citation synthesis and formatting
\* ------------------------------------------------------------------------
\* The loop of synthesize_citations_from_answer over file_ids: the first file
\* in which a page is found, NoFid when the loop ends without one.
RECURSIVE FirstLocated(_, _, _, _)
FirstLocated(user_id, file_ids, i, quote) ==
    IF i > Len(file_ids) THEN NoFid
    ELSE IF locate_page(user_id, file_ids[i], quote) # NoPage THEN file_ids[i]
    ELSE FirstLocated(user_id, file_ids, i + 1, quote)

\* The end of synthesize_citations_from_answer: the file the loop found, else
\* the last of file_ids, else nothing.
SynthesizedCitation(quote, file_ids, found) ==
    IF found # NoFid THEN << [file_id |-> found, quote |-> quote] >>
    ELSE IF file_ids # <<>>
         THEN << [file_id |-> file_ids[Len(file_ids)], quote |-> quote] >>
         ELSE <<>>

\* synthesize_citations_from_answer once the quote is extracted and the
\* session's file_ids are read.
SynthesizeFor(user_id, quote, file_ids) ==
    IF quote = <<>> THEN <<>>
    ELSE SynthesizedCitation(quote, file_ids, FirstLocated(user_id, file_ids, 1, quote))

\* synthesize_citations_from_answer
synthesize_citations_from_answer(answer, user_id) ==
    SynthesizeFor(user_id, extract_quote_from_answer(answer),
                  DictGet(FILES_BY_USER, user_id, <<>>))

DigitText == <<"0", "1", "2", "3", "4", "5", "6", "7", "8", "9">>

\* str(n) for n >= 0
RECURSIVE DecimalText(_)
DecimalText(n) ==
    IF n < 10 THEN <<DigitText[n + 1]>>
    ELSE DecimalText(n \div 10) \o <<DigitText[(n % 10) + 1]>>

\* The text an f-string makes of a file id: the service's ids read "file-<n>".
FidText(fid) ==
    IF fid = NoFid THEN TXT_NONE ELSE <<"f","i","l","e","-">> \o DecimalText(fid)

\* filename = _FILE_MAP.get(fid, fid), as the f-string of the line shows it
FileName(fid) == IF fid \in DOMAIN FILE_MAP THEN FILE_MAP[fid] ELSE FidText(fid)

\* snippet[:137] + "..." when the snippet is longer than 140 characters
Truncated(named) ==
    IF Len(named) > MaxQuoteLen THEN Slice(named, 0, TruncatedLen) \o TXT_ELLIPSIS
    ELSE named

\* The entry of a citation of file fid, displayed as filename, with the
\* stripped quote: the page is looked up when there is a file and a quote,
\* the snippet is the quote or, without one, "See source <filename>".
EntryOf(user_id, fid, filename, quote) ==
    [fid |-> fid,
     snippet |-> Truncated(IF quote = <<>> THEN TXT_SEE_SOURCE \o filename ELSE quote),
     filename |-> filename,
     page |-> IF fid # NoFid /\ quote # <<>>
              THEN locate_page(user_id, fid, quote) ELSE NoPage]

\* One pass of the loop of format_with_citations: the entry of citation c
\* before the duplicate test.  key is the triple (fid, snippet, page).
citation_entry(c, user_id) ==
    EntryOf(user_id, c.file_id, FileName(c.file_id), str_strip(c.quote))

\* A variant of the duplicate test that keeps every entry.
keeps_entry_Always(e, seen) == TRUE

\* Whether format_with_citations keeps an entry: its key is not in seen.
keeps_entry(e, seen) == <<e.fid, e.snippet, e.page>> \notin seen

\* The loop of format_with_citations over the entries: the lines it appends,
\* numbered from 1.
RECURSIVE KeepLines(_, _, _, _)
KeepLines(entries, i, seen, lines) ==
    IF i > Len(entries) THEN lines
    ELSE IF keeps_entry(entries[i], seen)
         THEN KeepLines(entries, i + 1,
                        seen \cup {<<entries[i].fid, entries[i].snippet, entries[i].page>>},
                        Append(lines, [idx |-> Len(lines) + 1, fid |-> entries[i].fid,
                                       snippet |-> entries[i].snippet,
                                       filename |-> entries[i].filename,
                                       page |-> entries[i].page]))
         ELSE KeepLines(entries, i + 1, seen, lines)

\* The entries of the citations, in order.
Entries(citations, user_id) ==
    [i \in 1..Len(citations) |-> citation_entry(citations[i], user_id)]

\* The lines format_with_citations appends for the citations.
citation_lines(citations, user_id) == KeepLines(Entries(citations, user_id), 1, {}, <<>>)

\* A variant that words the page of every line as a number.
render_line_PageNumber(l) ==
    <<"[">> \o DecimalText(l.idx) \o <<"]", " ">> \o l.snippet \o <<" ", "(">>
    \o l.filename \o <<","," ","p","a","g","e"," ">> \o DecimalText(l.page) \o <<")">>

\* f"[{idx}] {snippet} ({filename}{page_part})"
render_line(l) ==
    <<"[">> \o DecimalText(l.idx) \o <<"]", " ">> \o l.snippet \o <<" ", "(">>
    \o l.filename
    \o (IF l.page # NoPage
        THEN <<","," ","p","a","g","e"," ">> \o DecimalText(l.page)
        ELSE <<","," ","p","a","g","e"," ","n","/","a">>)
    \o <<")">>

RenderEach(lines) == [k \in 1..Len(lines) |-> render_line(lines[k])]

\* format_with_citations: the returned text
format_with_citations(answer, citations, user_id) ==
    IF citations = <<>> THEN answer
    ELSE answer \o <<"NL","NL","*","*","C","i","t","a","t","i","o","n","s",":","*","*","NL">>
         \o JoinLines(RenderEach(citation_lines(citations, user_id)), 1)

\* ------------------------------------------------------------------------
\* Operations
\* ------------------------------------------------------------------------
\* get_or_create_thread; create_ok tells whether threads.create() returns or
\* raises (the exception is not caught here).
get_or_create_thread(user_id, create_ok) ==
    IF user_id \in DOMAIN THREAD_BY_USER
    THEN [raised |-> FALSE, threads |-> THREAD_BY_USER, has_file |-> HAS_FILE_IN_SESSION]
    ELSE IF ~create_ok
    THEN [raised |-> TRUE, threads |-> THREAD_BY_USER, has_file |-> HAS_FILE_IN_SESSION]
    ELSE [raised |-> FALSE,
          threads |-> DictSet(THREAD_BY_USER, user_id, ThreadId),
          has_file |-> DictSet(HAS_FILE_IN_SESSION, user_id, FALSE)]

\* The typed outcome a fixed sentence of the validation stands for.
OutcomeOf(msg) ==
    CASE msg = MSG_UNSUPPORTED -> "UnsupportedType"
      [] msg = MSG_EMPTY -> "EmptyDocument"
      [] msg = MSG_TOO_LARGE -> "TooLarge"
      [] msg = MSG_CORRUPTED -> "Corrupted"
      [] msg = MSG_NO_TEXT -> "NoExtractableText"
      [] OTHER -> "Accepted"

\* ------------------------------------------------------------------------
\* The rate limiter (services/ratelimit.py)
\* ------------------------------------------------------------------------
\* _WINDOW, in seconds.
WINDOW == 60

\* The clock is not read beyond this value.
MaxClock == 62

\* while dq and now - dq[0] > _WINDOW: dq.popleft()
RECURSIVE drop_old(_, _)
drop_old(dq, now) ==
    IF dq # <<>> /\ now - dq[1] > WINDOW THEN drop_old(Tail(dq), now) ELSE dq

\* A variant of allow that denies only above the limit.
allow_AboveLimit(buckets, user_id, mode, now) ==
    LET dq == drop_old(DictGet(buckets, <<user_id, mode>>, <<>>), now)
    IN  IF Len(dq) > LIMIT
        THEN [buckets |-> DictSet(buckets, <<user_id, mode>>, dq),
              allowed |-> FALSE, remaining |-> 0]
        ELSE [buckets |-> DictSet(buckets, <<user_id, mode>>, Append(dq, now)),
              allowed |-> TRUE, remaining |-> MaxOf(0, LIMIT - (Len(dq) + 1))]

\* allow, with time.time() = now: the buckets afterwards and the pair returned.
allow(buckets, user_id, mode, now) ==
    LET dq == drop_old(DictGet(buckets, <<user_id, mode>>, <<>>), now)
    IN  IF Len(dq) >= LIMIT
        THEN [buckets |-> DictSet(buckets, <<user_id, mode>>, dq),
              allowed |-> FALSE, remaining |-> 0]
        ELSE [buckets |-> DictSet(buckets, <<user_id, mode>>, Append(dq, now)),
              allowed |-> TRUE, remaining |-> MaxOf(0, LIMIT - (Len(dq) + 1))]

\* reset_user; mode "None" stands for the default None.
reset_user(buckets, user_id, mode) ==
    IF mode = "None"
    THEN [k \in {x \in DOMAIN buckets : x[1] # user_id} |-> buckets[k]]
    ELSE DictPop(buckets, <<user_id, mode>>)

\* ------------------------------------------------------------------------
\* The commands
\* ------------------------------------------------------------------------
\* A free invocation slot; invocations are anonymous, so the lowest is taken.
FreeSlot(r) ==
    /\ req[r].pc = "idle"
    /\ \A r2 \in Requests : r2 < r => req[r2].pc # "idle"

\* coach_answer returns or raises: the invocation ends, the outcome is observed.
Ends(r, o) ==
    /\ req' = [req EXCEPT ![r] = IdleReq]
    /\ obs' = o

\* coach_answer suspended in run_and_wait.
AwaitsRun(r, user_id) ==
    req' = [req EXCEPT ![r] = [pc |-> "run", user_id |-> user_id,
                               attachment |-> <<>>]]

\* The reply of a command used outside its channel.
WrongChannel(user_id, mode) ==
    [NoObs EXCEPT !.op = "wrong_channel", !.user = user_id,
                  !.text = IF mode = "chat" THEN "Please use #chat for /chat."
                           ELSE "Please use #coach for /coach."]

\* The reply of a command that the limiter denies.
RateLimited(user_id, mode) ==
    [NoObs EXCEPT !.op = "limited", !.user = user_id,
                  !.text = IF mode = "chat"
                           THEN "Rate limit reached (chat). Please retry in a minute."
                           ELSE "Rate limit reached (coach). Please retry in a minute."]

\* chat_cmd up to its first suspension: the channel check; rl_allow for the
\* chat mode with time.time() = now; the rate-limit reply when it denies;
\* otherwise response.defer is awaited and the invocation holds the slot r.
\* Only an invocation that suspends takes a slot.
ChatCmd(r, user_id, prompt, in_channel, now) ==
    /\ obs = NoObs
    /\ IF ~in_channel
       THEN /\ obs' = WrongChannel(user_id, "chat")
            /\ UNCHANGED <<req, BUCKETS, clock, commands>>
       ELSE /\ now <= MaxClock
            /\ commands < MaxCommands
            /\ commands' = commands + 1
            /\ clock' = now
            /\ BUCKETS' = allow(BUCKETS, user_id, "chat", now).buckets
            /\ IF allow(BUCKETS, user_id, "chat", now).allowed
               THEN /\ FreeSlot(r)
                    /\ req' = [req EXCEPT ![r] =
                                 [pc |-> "chat", user_id |-> user_id,
                                  attachment |-> <<>>, question |-> <<prompt>>]]
                    /\ obs' = NoObs
               ELSE /\ obs' = RateLimited(user_id, "chat")
                    /\ UNCHANGED req
    /\ UNCHANGED <<assistant_id, LIMIT, session, granted, poll>>

\* chat_cmd resumed after response.defer: chat_fast returns the reply of the
\* model, or its apology when the call raised; followup.send is awaited.
ChatReply(r) ==
    /\ obs = NoObs
    /\ req[r].pc = "chat"
    /\ \E ok \in BOOLEAN :
         Ends(r, [NoObs EXCEPT
                    !.op = "chat", !.user = req[r].user_id,
                    !.question = req[r].question,
                    !.text = IF ok THEN "reply"
                             ELSE "Sorry, I hit an issue talking to the model. Please try again."])
    /\ UNCHANGED <<assistant_id, LIMIT, commands, session, BUCKETS, granted, clock, poll>>

\* coach_cmd up to its first suspension: the channel check; rl_allow for the
\* coach mode with time.time() = now; the rate-limit reply when it denies;
\* otherwise the attachment descriptor is built and response.defer is
\* awaited and the invocation holds the slot r; only an invocation that
\* suspends takes a slot.  `attachment` is <<>> for a command without a file.
CoachCmd(r, user_id, question, attachment, in_channel, now) ==
    /\ obs = NoObs
    /\ IF ~in_channel
       THEN /\ obs' = WrongChannel(user_id, "coach")
            /\ UNCHANGED <<req, BUCKETS, clock, commands>>
       ELSE /\ now <= MaxClock
            /\ commands < MaxCommands
            /\ commands' = commands + 1
            /\ clock' = now
            /\ BUCKETS' = allow(BUCKETS, user_id, "coach", now).buckets
            /\ IF allow(BUCKETS, user_id, "coach", now).allowed
               THEN /\ FreeSlot(r)
                    /\ req' = [req EXCEPT ![r] =
                                 [pc |-> "defer", user_id |-> user_id,
                                  attachment |-> attachment, question |-> question]]
                    /\ obs' = NoObs
               ELSE /\ obs' = RateLimited(user_id, "coach")
                    /\ UNCHANGED req
    /\ UNCHANGED <<assistant_id, LIMIT, session, granted, poll>>

\* coach_cmd resumed after response.defer, without a file:
\* coach_answer(user_id, question, None) up to its first suspension: the
\* configuration check, the thread, the prior-upload check, posting the
\* question, starting the run.
CoachQuestion(r, user_id, question) ==
    /\ obs = NoObs
    /\ req[r].pc = "defer"
    /\ req[r].user_id = user_id
    /\ req[r].attachment = <<>>
    /\ req[r].question = question
    /\ \E create_ok \in BOOLEAN, post_ok \in BOOLEAN :
         LET t == get_or_create_thread(user_id, create_ok)
             o == [Call(user_id, "start") EXCEPT !.question = question]
         IN  IF assistant_id = ""
             THEN /\ Ends(r, [o EXCEPT !.outcome = "NotConfigured",
                                       !.text = MSG_NOT_CONFIGURED])
                  /\ UNCHANGED session
             ELSE IF t.raised
             THEN /\ Ends(r, [o EXCEPT !.outcome = "Raised", !.text = "threads.create"])
                  /\ UNCHANGED session
             ELSE /\ THREAD_BY_USER' = t.threads
                  /\ HAS_FILE_IN_SESSION' = t.has_file
                  /\ UNCHANGED <<FILE_MAP, PAGE_INDEX, FILES_BY_USER, next_file, uploaded>>
                  /\ IF ~DictGet(t.has_file, user_id, FALSE)
                     THEN Ends(r, [o EXCEPT !.outcome = "NoPriorUpload",
                                            !.text = MSG_NO_PRIOR_UPLOAD])
                     ELSE IF ~post_ok
                     THEN Ends(r, [o EXCEPT !.outcome = "Raised",
                                            !.text = "messages.create"])
                     ELSE AwaitsRun(r, user_id) /\ obs' = NoObs
    /\ UNCHANGED <<assistant_id, LIMIT, commands, BUCKETS, granted, clock, poll>>

\* coach_cmd resumed after response.defer, with a file:
\* coach_answer(user_id, question, attachment) up to its first suspension:
\* the configuration check, the thread, the guards on the declared type and
\* size, then the fetch of the bytes is awaited.
CoachUpload(r, user_id, question, attachment) ==
    /\ obs = NoObs
    /\ req[r].pc = "defer"
    /\ req[r].user_id = user_id
    /\ req[r].attachment = <<attachment>>
    /\ req[r].question = question
    /\ \E create_ok \in BOOLEAN :
         LET t == get_or_create_thread(user_id, create_ok)
             o == [Call(user_id, "start") EXCEPT !.attachment = <<attachment>>]
             guard == basic_guards(content_type_of(attachment), attachment.size)
         IN  IF assistant_id = ""
             THEN /\ Ends(r, [o EXCEPT !.outcome = "NotConfigured",
                                       !.text = MSG_NOT_CONFIGURED])
                  /\ UNCHANGED session
             ELSE IF t.raised
             THEN /\ Ends(r, [o EXCEPT !.outcome = "Raised", !.text = "threads.create"])
                  /\ UNCHANGED session
             ELSE /\ THREAD_BY_USER' = t.threads
                  /\ HAS_FILE_IN_SESSION' = t.has_file
                  /\ UNCHANGED <<FILE_MAP, PAGE_INDEX, FILES_BY_USER, next_file, uploaded>>
                  /\ IF guard # ""
                     THEN Ends(r, [o EXCEPT !.outcome = OutcomeOf(guard), !.text = guard])
                     ELSE /\ req' = [req EXCEPT ![r] =
                                       [pc |-> "fetch", user_id |-> user_id,
                                        attachment |-> <<attachment>>]]
                          /\ obs' = NoObs
    /\ UNCHANGED <<assistant_id, LIMIT, commands, BUCKETS, granted, clock, poll>>

\* What fetch_attachment_bytes does: yields bytes, raises RuntimeError (an
\* HTTP status >= 400) or raises another exception (transport, timeout).
FetchResults ==
    {[status |-> "ok", data |-> d] : d \in Datas}
    \cup {[status |-> "http_error", data |-> DataNone],
          [status |-> "error", data |-> DataNone]}

\* upload_file_to_openai after files.create() has returned file_id.
upload_file_to_openai(file_map, file_id, filename) == DictSet(file_map, file_id, filename)

\* A variant of the tracking that puts the new document at the head of the list.
track_file_AtHead(files, user_id, fid) ==
    DictSet(files, user_id, <<fid>> \o DictGet(files, user_id, <<>>))

\* _FILES_BY_USER.setdefault(user_id, []).append(fid)
track_file(files, user_id, fid) ==
    DictSet(files, user_id, Append(DictGet(files, user_id, <<>>), fid))

\* coach_answer resumed with the outcome of the fetch, up to its next
\* suspension: size of the payload, preflight, upload, tracking and indexing,
\* posting the question, starting the run.
FetchDone(r) ==
    /\ obs = NoObs
    /\ req[r].pc = "fetch"
    /\ \E f \in FetchResults :
         LET user_id == req[r].user_id
             attachment == req[r].attachment[1]
             ct == content_type_of(attachment)
             pre == preflight(ct, f.data)
             fid == next_file
             o == [Call(user_id, "fetched") EXCEPT
                                !.attachment = req[r].attachment,
                                !.fetched = IF f.status = "ok" THEN <<f.data>> ELSE <<>>]
         IN  IF f.status = "http_error"
             THEN /\ Ends(r, [o EXCEPT !.outcome = "TransportFailure",
                                       !.text = MSG_DOWNLOAD])
                  /\ UNCHANGED session
             ELSE IF f.status = "error"
             THEN /\ Ends(r, [o EXCEPT !.outcome = "TransportFailure",
                                       !.text = MSG_FETCH_UNEXPECTED])
                  /\ UNCHANGED session
             ELSE IF pre.msg # ""
             THEN /\ Ends(r, [o EXCEPT !.outcome = OutcomeOf(pre.msg), !.text = pre.msg])
                  /\ UNCHANGED session
             ELSE \E upload_ok \in BOOLEAN, post_ok \in BOOLEAN :
                  /\ next_file <= MaxFiles
                  /\ IF ~upload_ok
                     THEN /\ Ends(r, [o EXCEPT !.outcome = "IngestionFailure",
                                               !.ingested = TRUE,
                                               !.text = MSG_CORRUPTED])
                          /\ UNCHANGED session
                     ELSE /\ FILE_MAP' = upload_file_to_openai(FILE_MAP, fid,
                                                               attachment.filename)
                          /\ next_file' = fid + 1
                          /\ uploaded' = DictSet(uploaded, fid,
                                                 [filename |-> attachment.filename,
                                                  mime |-> ct])
                          /\ FILES_BY_USER' = track_file(FILES_BY_USER, user_id, fid)
                          /\ PAGE_INDEX' = index_pages(PAGE_INDEX, user_id, fid,
                                                       pages_to_index(ct, pre.pages))
                          /\ HAS_FILE_IN_SESSION' =
                                 DictSet(HAS_FILE_IN_SESSION, user_id, TRUE)
                          /\ UNCHANGED THREAD_BY_USER
                          /\ IF ~post_ok
                             THEN Ends(r, [o EXCEPT !.outcome = "Raised",
                                                    !.ingested = TRUE,
                                                    !.text = "messages.create"])
                             ELSE /\ AwaitsRun(r, user_id)
                                  /\ obs' = [o EXCEPT !.op = "upload",
                                                      !.outcome = "Accepted",
                                                      !.ingested = TRUE,
                                                      !.file_id = fid]
    /\ UNCHANGED <<assistant_id, LIMIT, commands, BUCKETS, granted, clock, poll>>

\* How run_and_wait ends: an API call of it raises, or the polling loop is
\* left with a status and, for a completed run, the latest message is listed.
RunOutcomes ==
    {[raised |-> TRUE, status |-> "failed", messages |-> <<>>]}
    \cup {[raised |-> FALSE, status |-> st, messages |-> <<>>] :
            st \in RunStatuses \ {"completed"}}
    \cup {[raised |-> FALSE, status |-> "completed", messages |-> m] : m \in Messages}

\* The citations coach_answer formats: those of the run, or the synthesized
\* ones when the run gave none and the fallback found some.
citations_to_format(run, user_id) ==
    IF run.citations # <<>> THEN run.citations
    ELSE synthesize_citations_from_answer(run.answer, user_id)

\* What coach_answer returns for the citations it formats.
Formatted(user_id, run, cites) ==
    [Call(user_id, "ran") EXCEPT
        !.outcome = "Answered",
        !.answer = run.answer,
        !.cites = cites,
        !.synthesized = (run.citations = <<>> /\ cites # <<>>),
        !.lines = citation_lines(cites, user_id),
        !.text = format_with_citations(run.answer, cites, user_id)]

\* The end of coach_answer for the pair `run` that run_and_wait returned.
Reply(user_id, run) == Formatted(user_id, run, citations_to_format(run, user_id))

\* coach_answer resumed with the outcome of run_and_wait: fallback synthesis
\* and formatting; the value is returned.
RunDone(r) ==
    /\ obs = NoObs
    /\ req[r].pc = "run"
    /\ \E out \in RunOutcomes :
         IF out.raised
         THEN Ends(r, [Call(req[r].user_id, "ran") EXCEPT
                          !.outcome = "Raised", !.text = "runs"])
         ELSE Ends(r, [Reply(req[r].user_id, run_result(out.status, out.messages))
                          EXCEPT !.status = out.status])
    /\ UNCHANGED <<assistant_id, LIMIT, commands, session, BUCKETS, granted, clock, poll>>

\* d without the keys in `keys`: a loop of d.pop(key, None).
PopKeys(d, keys) == [x \in (DOMAIN d) \ keys |-> d[x]]

\* The keys reset_user_thread pops from _FILE_MAP: list(_FILE_MAP.keys()).
file_map_keys_to_pop(user_id) == DOMAIN FILE_MAP

\* A variant of the reset that leaves the page index of the session in place.
reset_user_thread_KeepsIndex(user_id) ==
    /\ THREAD_BY_USER' = DictPop(THREAD_BY_USER, user_id)
    /\ HAS_FILE_IN_SESSION' = DictPop(HAS_FILE_IN_SESSION, user_id)
    /\ FILE_MAP' = PopKeys(FILE_MAP, file_map_keys_to_pop(user_id))
    /\ PAGE_INDEX' = PAGE_INDEX
    /\ FILES_BY_USER' = DictPop(FILES_BY_USER, user_id)
    /\ UNCHANGED <<next_file, uploaded>>

\* reset_user_thread
reset_user_thread(user_id) ==
    /\ THREAD_BY_USER' = DictPop(THREAD_BY_USER, user_id)
    /\ HAS_FILE_IN_SESSION' = DictPop(HAS_FILE_IN_SESSION, user_id)
    /\ FILE_MAP' = PopKeys(FILE_MAP, file_map_keys_to_pop(user_id))
    /\ PAGE_INDEX' = DictPop(PAGE_INDEX, user_id)
    /\ FILES_BY_USER' = DictPop(FILES_BY_USER, user_id)
    /\ UNCHANGED <<next_file, uploaded>>

\* reset_cmd(mode) up to its reply; it does not suspend before.  For coach
\* and all the session is reset and the coach bucket popped, for chat and
\* all the chat bucket is popped.  A reset of the session is observed as
\* "reset", one of the chat context alone as "reset_chat".
Reset(user_id, mode) ==
    /\ obs = NoObs
    /\ IF mode \in {"coach", "all"}
       THEN reset_user_thread(user_id)
       ELSE UNCHANGED session
    /\ BUCKETS' =
          CASE mode = "coach" -> reset_user(BUCKETS, user_id, "coach")
            [] mode = "chat" -> reset_user(BUCKETS, user_id, "chat")
            [] mode = "all" ->
                 reset_user(reset_user(BUCKETS, user_id, "coach"), user_id, "chat")
    /\ obs' = [NoObs EXCEPT !.op = IF mode = "chat" THEN "reset_chat" ELSE "reset",
                             !.user = user_id,
                             !.files = DictGet(FILES_BY_USER, user_id, <<>>),
                             !.flag = DictGet(HAS_FILE_IN_SESSION, user_id, FALSE)]
    /\ UNCHANGED <<assistant_id, LIMIT, commands, req, granted, clock, poll>>

\* The observation of the last step is consumed (the reply is on its way).
Observed ==
    /\ obs # NoObs
    /\ obs' = NoObs
    /\ UNCHANGED <<assistant_id, LIMIT, commands, session, req, BUCKETS, granted, clock, poll>>

Init ==
    /\ assistant_id \in {"", "asst_1"}
    /\ THREAD_BY_USER = EmptyDict
    /\ HAS_FILE_IN_SESSION = EmptyDict
    /\ FILE_MAP = EmptyDict
    /\ PAGE_INDEX = EmptyDict
    /\ FILES_BY_USER = EmptyDict
    /\ next_file = 1
    /\ uploaded = EmptyDict
    /\ req = [r \in Requests |-> IdleReq]
    /\ obs = NoObs
    /\ LIMIT = 1
    /\ BUCKETS = EmptyDict
    /\ granted = EmptyDict
    /\ clock = 0
    /\ commands = 0
    /\ poll = [pc |-> "idle", t0 |-> 0, status |-> "", result |-> <<>>]

Next ==
    \/ \E r \in Requests, u \in Users, p \in Prompts, c \in BOOLEAN, d \in {0, 61} :
           ChatCmd(r, u, p, c, clock + d)
    \/ \E r \in Requests : ChatReply(r)
    \/ \E r \in Requests, u \in Users, q \in Questions,
          a \in {<<>>} \cup {<<x>> : x \in Attachments}, c \in BOOLEAN, d \in {0, 61} :
           CoachCmd(r, u, q, a, c, clock + d)
    \/ \E r \in Requests, u \in Users, q \in Questions : CoachQuestion(r, u, q)
    \/ \E r \in Requests, u \in Users, q \in Questions, a \in Attachments :
           CoachUpload(r, u, q, a)
    \/ \E r \in Requests : FetchDone(r)
    \/ \E r \in Requests : RunDone(r)
    \/ \E u \in Users, m \in {"coach", "chat", "all"} : Reset(u, m)
    \/ Observed

Spec == Init /\ [][Next]_vars

\* ------------------------------------------------------------------------
\* The page locator on its own
\* ------------------------------------------------------------------------
\* A call of locate_page; the page it returns is observed.
Locate(user_id, file_id, quoted_snippet) ==
    /\ obs = NoObs
    /\ obs' = [NoObs EXCEPT !.op = "locate", !.user = user_id, !.file_id = file_id,
                             !.quote = quoted_snippet,
                             !.probes =
                                 IF \/ DictGet(DictGet(PAGE_INDEX, user_id, EmptyDict),
                                               file_id, <<>>) = <<>>
                                    \/ Len(norm(strip_page_tag(quoted_snippet))) < QuoteMinLen
                                 THEN <<>>
                                 ELSE locate_probes(quoted_snippet),
                             !.page = locate_page(user_id, file_id, quoted_snippet)]
    /\ UNCHANGED <<assistant_id, LIMIT, commands, session, req, BUCKETS, granted, clock, poll>>

\* The state after u1 has uploaded one accepted PDF and its run has ended.
LocInit ==
    /\ assistant_id = "asst_1"
    /\ THREAD_BY_USER = DictSet(EmptyDict, "u1", ThreadId)
    /\ HAS_FILE_IN_SESSION = DictSet(EmptyDict, "u1", TRUE)
    /\ FILE_MAP = upload_file_to_openai(EmptyDict, 1, AttFund.filename)
    /\ FILES_BY_USER = track_file(EmptyDict, "u1", 1)
    /\ \E d \in LocDatas :
          PAGE_INDEX = index_pages(EmptyDict, "u1", 1,
                          pages_to_index("application/pdf",
                                         preflight("application/pdf", d).pages))
    /\ next_file = 2
    /\ uploaded = DictSet(EmptyDict, 1, [filename |-> AttFund.filename,
                                         mime |-> "application/pdf"])
    /\ req = [r \in Requests |-> IdleReq]
    /\ obs = NoObs
    /\ LIMIT = 1
    /\ BUCKETS = EmptyDict
    /\ granted = EmptyDict
    /\ clock = 0
    /\ commands = 0
    /\ poll = [pc |-> "idle", t0 |-> 0, status |-> "", result |-> <<>>]

LocNext ==
    \/ \E u \in Users, f \in 1..MaxFiles, q \in LocQuotes : Locate(u, f, q)
    \/ Observed

LocSpec == LocInit /\ [][LocNext]_vars

\* ------------------------------------------------------------------------
\* The rate limiter on its own: calls of allow and reset_user
\* ------------------------------------------------------------------------
\* A call of allow(user_id, mode) when the clock reads now.
Allow(user_id, mode, now) ==
    /\ now <= MaxClock
    /\ clock' = now
    /\ BUCKETS' = allow(BUCKETS, user_id, mode, now).buckets
    /\ obs' = [op |-> "allow", user |-> user_id, mode |-> mode, now |-> now,
               allowed |-> allow(BUCKETS, user_id, mode, now).allowed,
               remaining |-> allow(BUCKETS, user_id, mode, now).remaining]
    /\ granted' =
          IF allow(BUCKETS, user_id, mode, now).allowed
          THEN DictSet(granted, <<user_id, mode>>,
                       LastChars(Append(DictGet(granted, <<user_id, mode>>, <<>>), now),
                                 LIMIT + 1))
          ELSE granted
    /\ UNCHANGED <<assistant_id, LIMIT, commands, session, req, poll>>

\* A call of reset_user(user_id, mode).
ResetUser(user_id, mode) ==
    /\ BUCKETS' = reset_user(BUCKETS, user_id, mode)
    /\ granted' = reset_user(granted, user_id, mode)
    /\ obs' = [op |-> "reset_user", user |-> user_id, mode |-> mode, now |-> clock,
               allowed |-> FALSE, remaining |-> 0]
    /\ UNCHANGED <<assistant_id, LIMIT, commands, session, req, clock, poll>>

\* No bucket exists before the first call.
RlInit ==
    /\ assistant_id = "asst_1"
    /\ THREAD_BY_USER = EmptyDict
    /\ HAS_FILE_IN_SESSION = EmptyDict
    /\ FILE_MAP = EmptyDict
    /\ PAGE_INDEX = EmptyDict
    /\ FILES_BY_USER = EmptyDict
    /\ next_file = 1
    /\ uploaded = EmptyDict
    /\ req = [r \in Requests |-> IdleReq]
    /\ obs = NoObs
    /\ LIMIT \in {1, 2}
    /\ BUCKETS = EmptyDict
    /\ granted = EmptyDict
    /\ clock = 0
    /\ commands = 0
    /\ poll = [pc |-> "idle", t0 |-> 0, status |-> "", result |-> <<>>]

\* Calls of the two functions of the module in any order, the clock never
\* going back.
RlNext ==
    \/ \E u \in Users, m \in {"chat", "coach"}, d \in {0, 30, 31} : Allow(u, m, clock + d)
    \/ \E u \in Users, m \in {"chat", "coach", "None"} : ResetUser(u, m)

RlSpec == RlInit /\ [][RlNext]_vars

\* ------------------------------------------------------------------------
\* The polling loop of run_and_wait on its own
\* ------------------------------------------------------------------------
\* timeout_s, the default of the parameter, in seconds.
timeout_s == 90

\* The clock is not read beyond this value.
MaxPollClock == 186

\* The statuses on which the loop is left.
TerminalStatuses == {"completed", "failed", "requires_action", "cancelled", "expired"}

\* asyncio.sleep(1.0) returns, d seconds after it was called; the retrieval
\* is started and awaited.
SleepDone(d) ==
    /\ poll.pc = "sleep"
    /\ clock + d <= MaxPollClock
    /\ clock' = clock + d
    /\ poll' = [poll EXCEPT !.pc = "retrieve"]
    /\ UNCHANGED <<assistant_id, LIMIT, commands, session, req, obs, BUCKETS, granted>>

\* A variant of the resumption that leaves the loop on a terminal status only.
RetrieveDone_NoTimeout(d, status) ==
    /\ poll.pc = "retrieve"
    /\ clock + d <= MaxPollClock
    /\ clock' = clock + d
    /\ poll' = IF status = "completed"
               THEN [poll EXCEPT !.pc = "list", !.status = status]
               ELSE IF status \in TerminalStatuses
               THEN [poll EXCEPT !.pc = "done", !.status = status,
                                 !.result = run_result(status, <<>>)]
               ELSE [poll EXCEPT !.pc = "sleep", !.status = status]
    /\ UNCHANGED <<assistant_id, LIMIT, commands, session, req, obs, BUCKETS, granted>>

\* runs.retrieve returns `status`, d seconds after it was started.  The loop
\* is left on a terminal status, or when time.time() - t0 > timeout_s; a run
\* that is not completed returns the failure sentence at once, for a
\* completed one messages.list is awaited; otherwise the next sleep starts.
RetrieveDone(d, status) ==
    /\ poll.pc = "retrieve"
    /\ clock + d <= MaxPollClock
    /\ clock' = clock + d
    /\ poll' = IF status = "completed"
               THEN [poll EXCEPT !.pc = "list", !.status = status]
               ELSE IF status \in TerminalStatuses \/ (clock + d) - poll.t0 > timeout_s
               THEN [poll EXCEPT !.pc = "done", !.status = status,
                                 !.result = run_result(status, <<>>)]
               ELSE [poll EXCEPT !.pc = "sleep", !.status = status]
    /\ UNCHANGED <<assistant_id, LIMIT, commands, session, req, obs, BUCKETS, granted>>

\* messages.list returns `messages`, d seconds after it was started; the
\* latest message is read and run_and_wait returns.
ListDone(d, messages) ==
    /\ poll.pc = "list"
    /\ clock + d <= MaxPollClock
    /\ clock' = clock + d
    /\ poll' = [poll EXCEPT !.pc = "done",
                            !.result = run_result(poll.status, messages)]
    /\ UNCHANGED <<assistant_id, LIMIT, commands, session, req, obs, BUCKETS, granted>>

\* runs.create has returned a queued run, t0 = time.time() is taken and the
\* first sleep of the loop is awaited.
PollInit ==
    /\ assistant_id = "asst_1"
    /\ THREAD_BY_USER = EmptyDict
    /\ HAS_FILE_IN_SESSION = EmptyDict
    /\ FILE_MAP = EmptyDict
    /\ PAGE_INDEX = EmptyDict
    /\ FILES_BY_USER = EmptyDict
    /\ next_file = 1
    /\ uploaded = EmptyDict
    /\ req = [r \in Requests |-> IdleReq]
    /\ obs = NoObs
    /\ LIMIT = 1
    /\ BUCKETS = EmptyDict
    /\ granted = EmptyDict
    /\ clock \in {0, 5}
    /\ commands = 0
    /\ poll = [pc |-> "sleep", t0 |-> clock, status |-> "queued", result |-> <<>>]

\* The sleep lasts a second at least; the retrieval returns a status of the
\* run; a completed run has a latest message or none.
PollNext ==
    \/ \E d \in {1, 2, 45} : SleepDone(d)
    \/ \E d \in {0, 1, 45}, st \in RunStatuses \cup {"queued", "cancelling"} :
          RetrieveDone(d, st)
    \/ \E d \in {0, 1}, m \in Messages : ListDone(d, m)

\* Every await of run_and_wait returns.
PollSpec == PollInit /\ [][PollNext]_vars /\ WF_vars(PollNext)

\* ------------------------------------------------------------------------
\* Properties
\* ------------------------------------------------------------------------
\* The document list of a session and the set of its entries.
FilesOf(u) == DictGet(FILES_BY_USER, u, <<>>)

ListedFiles(u) == {FilesOf(u)[k] : k \in 1..Len(FilesOf(u))}

\* C1: reset(A) leaves the state of every other session B as it was: B's
\* document list, B's page indexes, B's flag, and the filename mapping of
\* every document in B's list.
C1_ResetLeavesOtherSessions ==
    [][\A a \in Users, b \in Users :
         (a # b /\ \E m \in {"coach", "chat", "all"} : Reset(a, m)) =>
            /\ (b \in DOMAIN FILES_BY_USER') = (b \in DOMAIN FILES_BY_USER)
            /\ DictGet(FILES_BY_USER', b, <<>>) = DictGet(FILES_BY_USER, b, <<>>)
            /\ (b \in DOMAIN PAGE_INDEX') = (b \in DOMAIN PAGE_INDEX)
            /\ DictGet(PAGE_INDEX', b, EmptyDict) = DictGet(PAGE_INDEX, b, EmptyDict)
            /\ (b \in DOMAIN HAS_FILE_IN_SESSION') = (b \in DOMAIN HAS_FILE_IN_SESSION)
            /\ DictGet(HAS_FILE_IN_SESSION', b, FALSE) = DictGet(HAS_FILE_IN_SESSION, b, FALSE)
            /\ \A f \in ListedFiles(b) :
                 f \in DOMAIN FILE_MAP =>
                    f \in DOMAIN FILE_MAP' /\ FILE_MAP'[f] = FILE_MAP[f]]_vars

\* The positions in the document list `files` of user u whose document
\* yields a page for `quote`.
LocatingDocs(u, files, quote) ==
    {k \in 1..Len(files) : locate_page(u, files[k], quote) # NoPage}

\* C2: when the citation of a reply was synthesized and the quoted span is
\* locatable in two or more documents of the session, the citation names the
\* most recently uploaded of them (the last such entry of the document list).
C2_SynthesisNamesMostRecent ==
    (obs.op = "answer" /\ obs.outcome = "Answered" /\ obs.synthesized) =>
        LET ks == LocatingDocs(obs.user, obs.files, obs.cites[1].quote)
        IN  Cardinality(ks) >= 2 =>
               obs.cites[1].file_id = obs.files[CHOOSE k \in ks : \A j \in ks : j <= k]

\* What the checks before the upload demand of the attachment as declared and
\* of the bytes as fetched.
AcceptedByPreflight(attachment, data) ==
    LET ct == content_type_of(attachment)
    IN  /\ ct \in ALLOWED_TYPES
        /\ attachment.size >= MIN_FILE_BYTES
        /\ attachment.size <= MAX_FILE_MB * 1024 * 1024
        /\ data.nbytes >= MIN_FILE_BYTES
        /\ ct = "application/pdf" =>
              /\ data.opens
              /\ Len(data.pages) > 0
              /\ SumNormLens(data.pages, 1) >= MIN_TEXT_CHARS_NORM
        /\ ct = "text/plain" => str_strip(data.decoded) # <<>>

RejectOutcomes ==
    {"UnsupportedType", "EmptyDocument", "TooLarge", "Corrupted", "NoExtractableText",
     "TransportFailure"}

\* C3: a request calls the ingestion service only when the bytes were
\* fetched and every check before the upload accepts the document, and a
\* request that ends in a reject outcome has made no ingestion call.
C3_UploadOnlyAfterPreflight ==
    /\ obs.ingested =>
          /\ obs.attachment # <<>>
          /\ obs.fetched # <<>>
          /\ AcceptedByPreflight(obs.attachment[1], obs.fetched[1])
    /\ obs.outcome \in RejectOutcomes => ~obs.ingested

C3_Witness ==
    /\ obs.op = "upload"
    /\ obs.ingested
    /\ obs.outcome = "Accepted"
    /\ obs.attachment = <<AttNotes>>
    /\ obs.fetched = <<DataText>>

\* C4: no exception escapes coach_answer: every invocation ends by returning
\* a string.
C4_AnswerNeverRaises == obs.op = "answer" => obs.outcome # "Raised"

\* C5: with the assistant configured, a question without an attachment for a
\* session that has no validated upload (its document list is empty and its
\* flag is not set when coach_answer is called) is answered with the
\* NoPriorUpload sentence, whatever the question.
C5_NoPriorUploadMessage ==
    ( /\ assistant_id # ""
      /\ obs.op = "answer"
      /\ obs.at = "start"
      /\ obs.attachment = <<>>
      /\ obs.files = <<>>
      /\ ~obs.flag ) =>
        obs.outcome = "NoPriorUpload" /\ obs.text = MSG_NO_PRIOR_UPLOAD

\* C6: right after reset(S), S has no document list, no page index, no flag,
\* none of the documents it had listed has a filename mapping, and
\* locate_page over S returns unknown for every document and quote.
C6_ResetClearsSession ==
    obs.op = "reset" =>
        /\ obs.user \notin DOMAIN FILES_BY_USER
        /\ obs.user \notin DOMAIN PAGE_INDEX
        /\ obs.user \notin DOMAIN HAS_FILE_IN_SESSION
        /\ \A k \in 1..Len(obs.files) : obs.files[k] \notin DOMAIN FILE_MAP
        /\ \A f \in 1..MaxFiles, q \in Quotes : locate_page(obs.user, f, q) = NoPage

C6_Witness ==
    /\ obs.op = "reset"
    /\ obs.flag
    /\ Len(obs.files) >= 1
    /\ \E u \in Users : u # obs.user /\ FilesOf(u) # <<>>

\* The page list a call of locate_page searched, and whether the snippet was
\* long enough to be searched for.
SearchedPages == DictGet(DictGet(PAGE_INDEX, obs.user, EmptyDict), obs.file_id, <<>>)

Searchable(quoted_snippet) == Len(norm(strip_page_tag(quoted_snippet))) >= QuoteMinLen

\* The probes of a snippet as a set (their order left aside).
ProbeSet(quoted_snippet) ==
    LET probes == locate_probes(quoted_snippet)
    IN  {probes[k] : k \in 1..Len(probes)} \ {<<>>}

\* The pages on which some probe occurs verbatim.
ExactPages(pages, quoted_snippet) ==
    {i \in 1..Len(pages) : \E p \in ProbeSet(quoted_snippet) : Contains(p, pages[i])}

\* C7: when some probe of a searchable snippet occurs verbatim on some page,
\* locate_page returns the lowest page on which any probe occurs.
C7_ExactPassLowestPage ==
    ( /\ obs.op = "locate"
      /\ Searchable(obs.quote)
      /\ ExactPages(SearchedPages, obs.quote) # {} ) =>
        /\ obs.page \in ExactPages(SearchedPages, obs.quote)
        /\ \A i \in ExactPages(SearchedPages, obs.quote) : obs.page <= i

\* Two identical pages both hold a probe, neither is the first page of the
\* document, and the lower of them was returned.
C7_Witness ==
    /\ obs.op = "locate"
    /\ Searchable(obs.quote)
    /\ obs.page > 1
    /\ \E j \in ExactPages(SearchedPages, obs.quote) :
          j > obs.page /\ SearchedPages[j] = SearchedPages[obs.page]

\* The (probe, page) pairs of the fuzzy pass and the ratio of each.
RatioPairs(pages, quoted_snippet) == ProbeSet(quoted_snippet) \X (1..Len(pages))

\* Whether the pair pr attains the maximum ratio over all pairs.
AttainsMax(pages, quoted_snippet, pr) ==
    \A other \in RatioPairs(pages, quoted_snippet) :
        LET r == quick_ratio(pr[1], pages[pr[2]])
            o == quick_ratio(other[1], pages[other[2]])
        IN  r[1] * o[2] >= o[1] * r[2]

\* The pages that attain the maximum ratio, when it reaches the threshold.
BestPages(pages, quoted_snippet) ==
    {pr[2] : pr \in {x \in RatioPairs(pages, quoted_snippet) :
                       /\ AttainsMax(pages, quoted_snippet, x)
                       /\ LET r == quick_ratio(x[1], pages[x[2]])
                          IN  r[1] * ThresholdDen >= ThresholdNum * r[2]}}

\* C8: when no probe of a searchable snippet occurs verbatim on any page,
\* locate_page returns the lowest page attaining the maximum ratio if that
\* maximum is at least 0.82, and unknown if it is below.
C8_FuzzyPassThreshold ==
    ( /\ obs.op = "locate"
      /\ SearchedPages # <<>>
      /\ Searchable(obs.quote)
      /\ ExactPages(SearchedPages, obs.quote) = {} ) =>
        LET best == BestPages(SearchedPages, obs.quote)
        IN  IF best = {} THEN obs.page = NoPage
            ELSE obs.page \in best /\ \A i \in best : obs.page <= i

\* The maximum ratio is exactly 0.82, two pages attain it, the lower of them
\* (not the first page) was returned.
C8_Witness ==
    /\ obs.op = "locate"
    /\ Searchable(obs.quote)
    /\ ExactPages(SearchedPages, obs.quote) = {}
    /\ obs.page > 1
    /\ Cardinality(BestPages(SearchedPages, obs.quote)) >= 2
    /\ \E p \in ProbeSet(obs.quote) :
          LET r == quick_ratio(p, SearchedPages[obs.page])
          IN  r[1] * ThresholdDen = ThresholdNum * r[2]

\* The key of the i-th citation the formatter was given.
CiteKey(i) ==
    LET e == citation_entry(obs.cites[i], obs.user)
    IN  <<e.fid, e.snippet, e.page>>

\* The citations whose key no earlier citation has.
FirstOfKey == {i \in 1..Len(obs.cites) : \A j \in 1..(i - 1) : CiteKey(j) # CiteKey(i)}

\* C9: the rendered lines carry pairwise different triples (document,
\* snippet, page), and they are the first citation of each triple, in order.
C9_FormatterDedup ==
    (obs.op = "answer" /\ obs.outcome = "Answered") =>
        /\ \A k \in 1..Len(obs.lines), l \in 1..Len(obs.lines) :
              k # l => <<obs.lines[k].fid, obs.lines[k].snippet, obs.lines[k].page>>
                       # <<obs.lines[l].fid, obs.lines[l].snippet, obs.lines[l].page>>
        /\ Len(obs.lines) = Cardinality(FirstOfKey)
        /\ \A k \in 1..Len(obs.lines) :
              \E i \in FirstOfKey :
                 /\ Cardinality({j \in FirstOfKey : j <= i}) = k
                 /\ <<obs.lines[k].fid, obs.lines[k].snippet, obs.lines[k].page>> = CiteKey(i)

\* Four citations, three of them with one triple, rendered as two lines.
C9_Witness ==
    /\ obs.op = "answer"
    /\ obs.outcome = "Answered"
    /\ Len(obs.cites) = 4
    /\ Len(obs.lines) = 2
    /\ obs.lines[1].page # NoPage
    /\ CiteKey(1) = CiteKey(2)

\* Whether the ingestion service holds fid as a text document.
IsTextDoc(fid) == fid \in DOMAIN uploaded /\ uploaded[fid].mime = "text/plain"

PAGE_NA == <<","," ","p","a","g","e"," ","n","/","a",")">>

\* C10: the page index stored for a text document is empty, locate_page
\* returns unknown for it for every quote, and every rendered citation
\* against it reads "page n/a".
C10_TextDocsHaveNoPages ==
    /\ \A u \in DOMAIN PAGE_INDEX : \A f \in DOMAIN PAGE_INDEX[u] :
          IsTextDoc(f) =>
             /\ PAGE_INDEX[u][f] = <<>>
             /\ \A q \in Quotes : locate_page(u, f, q) = NoPage
    /\ (obs.op = "answer" /\ obs.outcome = "Answered") =>
          \A k \in 1..Len(obs.lines) :
             IsTextDoc(obs.lines[k].fid) =>
                /\ obs.lines[k].page = NoPage
                /\ EndsWith(render_line(obs.lines[k]), PAGE_NA)

\* A reply cites a text document of the session with a quote long enough to
\* be searched for.
C10_Witness ==
    /\ obs.op = "answer"
    /\ obs.outcome = "Answered"
    /\ \E k \in 1..Len(obs.lines) :
          /\ IsTextDoc(obs.lines[k].fid)
          /\ obs.lines[k].fid \in DOMAIN DictGet(PAGE_INDEX, obs.user, EmptyDict)
          /\ obs.lines[k].snippet = str_strip(QuoteExact)

\* The line numbered k of the reply as it reads for a citation without a page.
UnknownPageLine(k) ==
    <<"[">> \o DecimalText(k) \o <<"]", " ">> \o obs.lines[k].snippet \o <<" ", "(">>
    \o obs.lines[k].filename \o PAGE_NA

\* C11: when locate_page returns unknown for a citation of a reply, the reply
\* is returned all the same: it begins with the answer text, and the citation
\* is rendered in it by a line that reads "page n/a".
C11_UnknownPageRendersNA ==
    (obs.op = "answer" /\ obs.outcome = "Answered") =>
        \A i \in 1..Len(obs.cites) :
            locate_page(obs.user, obs.cites[i].file_id, str_strip(obs.cites[i].quote))
              = NoPage =>
               /\ Slice(obs.text, 0, Len(obs.answer)) = obs.answer
               /\ \E k \in 1..Len(obs.lines) :
                     /\ obs.lines[k].fid = obs.cites[i].file_id
                     /\ obs.lines[k].snippet = CiteKey(i)[2]
                     /\ obs.lines[k].page = NoPage
                     /\ Contains(UnknownPageLine(k), obs.text)

\* A reply cites an indexed PDF of the session with a quote long enough to be
\* searched for, which no page holds and no page resembles enough.
C11_Witness ==
    /\ obs.op = "answer"
    /\ obs.outcome = "Answered"
    /\ \E i \in 1..Len(obs.cites) :
          /\ DictGet(DictGet(PAGE_INDEX, obs.user, EmptyDict), obs.cites[i].file_id, <<>>)
               # <<>>
          /\ Searchable(obs.cites[i].quote)
          /\ locate_page(obs.user, obs.cites[i].file_id, obs.cites[i].quote) = NoPage

\* C12: every document handed to the ingestion service has an actual byte
\* length between the 1024-byte floor and the 15 MiB ceiling, whatever size
\* the attachment declared.
C12_IngestedWithinSizeLimits ==
    obs.ingested =>
        /\ obs.fetched # <<>>
        /\ obs.fetched[1].nbytes >= MIN_FILE_BYTES
        /\ obs.fetched[1].nbytes <= MAX_FILE_MB * 1024 * 1024

\* The quoted spans of s from index i on, in order: the text between the
\* quotes of each successive match of the pattern.
RECURSIVE QuotedSpans(_, _)
QuotedSpans(s, i) ==
    IF i > Len(s) THEN <<>>
    ELSE LET m == FirstMatch(QuoteAt(s, i, "LDQ", "RDQ"), QuoteAt(s, i, "DQ", "DQ"))
         IN  IF m[1] THEN <<m[2]>> \o QuotedSpans(s, i + Len(m[2]) + 2)
             ELSE QuotedSpans(s, i + 1)

\* The first quoted span of s whose trimmed length is at least 12, trimmed
\* (the empty text when there is none).
FirstLongSpan(s) ==
    LET spans == QuotedSpans(s, 1)
        long == {k \in 1..Len(spans) : Len(str_strip(spans[k])) >= ExtractMinLen}
    IN  IF long = {} THEN <<>>
        ELSE str_strip(spans[CHOOSE k \in long : \A j \in long : k <= j])

\* The run of the reply gave no citation of its own.
RunGaveNoCitation == obs.synthesized \/ obs.cites = <<>>

\* C13: when the run gave no citation, the session has a document and the
\* answer holds a quoted span of trimmed length 12 or more, one citation is
\* synthesized and it quotes the first such span.
C13_SynthesisQuotesFirstLongSpan ==
    ( /\ obs.op = "answer"
      /\ obs.outcome = "Answered"
      /\ RunGaveNoCitation
      /\ obs.files # <<>>
      /\ FirstLongSpan(obs.answer) # <<>> ) =>
        /\ obs.synthesized
        /\ Len(obs.cites) = 1
        /\ obs.cites[1].quote = FirstLongSpan(obs.answer)

\* C14: when the run gave no citation, the answer holds a quoted span of
\* trimmed length 12 or more and no document of the session yields a page for
\* it, the synthesizer returns exactly one citation, against the last document
\* of the session's list, rendered without a page; for a session without
\* documents it returns none.
C14_PartialAttribution ==
    ( /\ obs.op = "answer"
      /\ obs.outcome = "Answered"
      /\ RunGaveNoCitation
      /\ FirstLongSpan(obs.answer) # <<>>
      /\ LocatingDocs(obs.user, obs.files, FirstLongSpan(obs.answer)) = {} ) =>
        IF obs.files = <<>> THEN obs.cites = <<>>
        ELSE /\ obs.cites = << [file_id |-> obs.files[Len(obs.files)],
                                quote |-> FirstLongSpan(obs.answer)] >>
             /\ Len(obs.lines) = 1
             /\ obs.lines[1].page = NoPage

\* C15: in every state, every document of every session's list has an entry
\* in the filename map.
C15_ListedFilesHaveNames ==
    \A u \in Users : \A f \in ListedFiles(u) : f \in DOMAIN FILE_MAP

\* C16: a step that is not the reset of a session leaves the session's
\* document list as it is or appends to it the document whose ingestion
\* completes in that step, so that between two resets the list is append-only
\* and in the order in which the ingestions completed.
C16_ListAppendOnly ==
    [][\A u \in Users :
         \/ \E m \in {"coach", "all"} : Reset(u, m)
         \/ DictGet(FILES_BY_USER', u, <<>>) = FilesOf(u)
         \/ /\ next_file \notin DOMAIN uploaded
            /\ next_file \in DOMAIN uploaded'
            /\ DictGet(FILES_BY_USER', u, <<>>) = Append(FilesOf(u), next_file)]_vars

\* Two requests of one session are in flight, both past their upload; the
\* second ingestion has just completed and its document follows the first.
C16_Witness ==
    /\ obs.op = "upload"
    /\ obs.files = <<1>>
    /\ obs.file_id = 2
    /\ FilesOf(obs.user) = <<1, 2>>
    /\ \A r \in Requests : req[r].pc = "run" /\ req[r].user_id = obs.user

\* C17: locate_page returns no page for every quote whose normalized form,
\* once a trailing page marker is stripped, has fewer than 12 characters,
\* also when that text stands on a page of the indexed document.
C17_ShortQuoteUnknown ==
    (obs.op = "locate" /\ ~Searchable(obs.quote)) => obs.page = NoPage

\* A quote of 12 characters or more that is short only once its page marker
\* is stripped, and whose text stands on a page of the index searched.
C17_Witness ==
    /\ obs.op = "locate"
    /\ Len(norm(obs.quote)) >= QuoteMinLen
    /\ norm(strip_page_tag(obs.quote)) # <<>>
    /\ ~Searchable(obs.quote)
    /\ \E i \in 1..Len(SearchedPages) :
           Contains(norm(strip_page_tag(obs.quote)), SearchedPages[i])
    /\ obs.page = NoPage

\* The quote of the call observed, its page marker stripped, normalized.
NormalizedExcerpt == norm(strip_page_tag(obs.quote))

\* C18: for every quote whose normalized form, once the page marker is
\* stripped, has at least 12 and fewer than 30 characters, the probes
\* locate_page searches for are the normalized quote and nothing else, also
\* when the raw quote has 30 characters or more because of repeated spaces.
C18_ShortExcerptSoleProbe ==
    (/\ obs.op = "locate"
     /\ SearchedPages # <<>>
     /\ Len(NormalizedExcerpt) >= QuoteMinLen
     /\ Len(NormalizedExcerpt) < ShortExcerptLen) =>
        obs.probes = << NormalizedExcerpt >>

\* C19: for every quote whose normalized form has 30 characters or more,
\* locate_page searches for at most three probes, which are pairwise
\* different as normalized strings and of 20 characters or more each, unless
\* the probe is the single fallback, the first 120 characters of the quote.
C19_SlicedProbesDistinctAndLong ==
    (/\ obs.op = "locate"
     /\ SearchedPages # <<>>
     /\ Len(NormalizedExcerpt) >= ShortExcerptLen) =>
        /\ Len(obs.probes) \in 1..3
        /\ \/ obs.probes =
                 << norm(Slice(str_strip(strip_page_tag(obs.quote)), 0, FallbackLen)) >>
           \/ /\ \A i, j \in 1..Len(obs.probes) : i # j => obs.probes[i] # obs.probes[j]
              /\ \A i \in 1..Len(obs.probes) : Len(obs.probes[i]) >= ProbeMinLen

\* C20: when the run leaves its polling with a status other than completed
\* (failed, cancelled, expired, requires_action, or still in progress at the
\* timeout), coach_answer returns the upstream-failure sentence and nothing
\* else, formats and synthesizes no citation, and the step leaves the
\* session's document list, page indexes and upload flag as they were.
C20_DegradedRun ==
    [][(/\ obs'.op = "answer"
        /\ obs'.at = "ran"
        /\ obs'.outcome = "Answered"
        /\ obs'.status # "completed") =>
           /\ obs'.text = TXT_UPSTREAM_FAILED
           /\ obs'.cites = <<>>
           /\ ~obs'.synthesized
           /\ obs'.lines = <<>>
           /\ UNCHANGED <<FILES_BY_USER, PAGE_INDEX, HAS_FILE_IN_SESSION>>]_vars

\* The run of a session with an indexed document is left on the timeout.
C20_Witness ==
    /\ obs.op = "answer"
    /\ obs.at = "ran"
    /\ obs.outcome = "Answered"
    /\ obs.status = "in_progress"
    /\ obs.files # <<>>
    /\ obs.flag
    /\ FilesOf(obs.user) = obs.files
    /\ DictGet(PAGE_INDEX, obs.user, EmptyDict) # EmptyDict
    /\ obs.text = TXT_UPSTREAM_FAILED

\* C21: in every state, also when a reset of a session falls between the
\* suspension points of a request of that session, the session's upload
\* flag is true exactly when its document list is not empty, and a request
\* of a session that has a document listed is not answered with the
\* sentence asking for a first upload.
C21_FlagIffListed ==
    /\ \A u \in Users : DictGet(HAS_FILE_IN_SESSION, u, FALSE) <=> (FilesOf(u) # <<>>)
    /\ (obs.op = "answer" /\ obs.outcome = "NoPriorUpload") => obs.files = <<>>

\* C22: a step of coach_answer that ends the request with one of the reject
\* sentences (unsupported type, empty, too large, corrupted, no extractable
\* text, download failure, ingestion failure) leaves the document lists, the
\* page indexes and the filename map as they were, and leaves the upload
\* flag of the session true when it was true.
C22_RejectChangesNothing ==
    [][(/\ obs'.op = "answer"
        /\ obs'.outcome \in RejectOutcomes \cup {"IngestionFailure"}) =>
           /\ UNCHANGED <<FILES_BY_USER, PAGE_INDEX, FILE_MAP>>
           /\ DictGet(HAS_FILE_IN_SESSION, obs'.user, FALSE) =>
                  DictGet(HAS_FILE_IN_SESSION', obs'.user, FALSE)]_vars

\* The bucket the call observed is about, before and after it.
BucketBefore == DictGet(BUCKETS, <<obs'.user, obs'.mode>>, <<>>)

BucketAfter == DictGet(BUCKETS', <<obs'.user, obs'.mode>>, <<>>)

\* The buckets a call of allow or reset_user for (user_id, mode) may touch.
TouchedBy(user_id, mode) ==
    {k \in Users \X {"chat", "coach"} : k[1] = user_id /\ (mode = "None" \/ k[2] = mode)}

\* C23: for every sequence of calls of allow and reset_user with timestamps
\* that never decrease, no bucket holds more than LIMIT timestamps; of the
\* calls of allow for one bucket since its last reset, any LIMIT + 1 that
\* returned True span more than 60 seconds, so that no window of 60 seconds
\* holds more than LIMIT of them; a call that is denied appends nothing to
\* its bucket; and a call changes no bucket other than those of its own
\* (user, mode).
C23_RateLimiter ==
    /\ [](/\ \A k \in DOMAIN BUCKETS : Len(BUCKETS[k]) <= LIMIT
          /\ \A k \in DOMAIN granted :
                Len(granted[k]) = LIMIT + 1 =>
                    granted[k][LIMIT + 1] - granted[k][1] > WINDOW)
    /\ [][/\ (obs'.op = "allow" /\ ~obs'.allowed) =>
                /\ \E i \in 1..(Len(BucketBefore) + 1) :
                       BucketAfter = SubSeq(BucketBefore, i, Len(BucketBefore))
                /\ granted' = granted
          /\ obs'.op \in {"allow", "reset_user"} =>
                \A k \in (Users \X {"chat", "coach"}) \ TouchedBy(obs'.user, obs'.mode) :
                   /\ (k \in DOMAIN BUCKETS') <=> (k \in DOMAIN BUCKETS)
                   /\ k \in DOMAIN BUCKETS => BUCKETS'[k] = BUCKETS[k]]_vars

\* A call is denied while its bucket is full and the oldest timestamp in it
\* is exactly 60 seconds old; the bucket of another user holds a timestamp.
C23_Witness ==
    /\ obs.op = "allow"
    /\ ~obs.allowed
    /\ LIMIT > 1
    /\ Len(BUCKETS[<<obs.user, obs.mode>>]) = LIMIT
    /\ obs.now - BUCKETS[<<obs.user, obs.mode>>][1] = WINDOW
    /\ \E k \in DOMAIN BUCKETS : k[1] # obs.user /\ BUCKETS[k] # <<>>

\* run_and_wait is in its loop: suspended at the sleep or at the retrieval.
InLoop == poll.pc \in {"sleep", "retrieve"}

\* C24: the polling loop of run_and_wait is left whenever every await
\* returns and time advances; the resumption after a retrieval leaves the
\* loop exactly when the retrieval reports a terminal status (completed,
\* failed, requires_action, cancelled, expired) or more than timeout_s
\* seconds have passed since t0, hence on the first such poll, and the
\* resumption after a sleep never leaves it; and when the loop is left with
\* a status other than completed the failure sentence is returned with no
\* citation.
C24_PollingTerminates ==
    /\ InLoop ~> ~InLoop
    /\ (poll.pc = "list") ~> (poll.pc = "done")
    /\ [][poll.pc = "retrieve" =>
            (~InLoop' <=>
                \/ poll'.status \in {"completed", "failed", "requires_action",
                                      "cancelled", "expired"}
                \/ clock' - poll.t0 > timeout_s)]_vars
    /\ [][poll.pc = "sleep" => InLoop']_vars
    /\ []((~InLoop /\ poll.status # "completed") =>
             /\ poll.pc = "done"
             /\ poll.result = [answer |-> TXT_UPSTREAM_FAILED, citations |-> <<>>])

\* The loop was left on the timeout, the run still in progress.
C24_Witness ==
    /\ poll.pc = "done"
    /\ poll.status = "in_progress"
    /\ clock - poll.t0 > timeout_s
    /\ poll.result = [answer |-> TXT_UPSTREAM_FAILED, citations |-> <<>>]

====
